---- MODULE Spec2Model ----
(***************************************************************************)
(* Model of the outlier / robust-statistics functions of                   *)
(* src/src/shap_app/webapp/components/outliers.py.                         *)
(*                                                                         *)
(* Numbers are extended rationals [n |-> numerator, d |-> denominator]     *)
(* with d >= 0: d > 0 is a finite value, <<1,0>> is +inf, <<-1,0>> is -inf *)
(* and <<0,0>> is NaN, which is what numpy's float division produces when  *)
(* the divisor is zero (a RuntimeWarning, never an exception).             *)
(* Arrays are [shape |-> <<n>> or <<rows, cols>>, flat |-> row-major       *)
(* sequence], so that the dimensionality of what a function returns is     *)
(* part of its value.                                                      *)
(*                                                                         *)
(* The module also models the dataset loaders and their Streamlit caches,  *)
(* the hashed-id train/test split of pipelines/pipeline_utils.py with the  *)
(* Boston train/test files, and of the web app the script's use of session *)
(* state, the data-point slider, rerun_on_attribute_error and the figure   *)
(* file cache. Each part has a specification of its own.                   *)
(***************************************************************************)
EXTENDS Integers, Sequences, FiniteSets, TLC

\* ------------------------------------------------------------------ bounds
MaxLen == 4      \* longest enumerated 1-D sample
MaxVal == 2      \* enumerated observations are 0..MaxVal
MaxCell == 1     \* cells of enumerated 2-D tables are 0..MaxCell
MaxThr == 2      \* enumerated thresholds are -1..MaxThr
MaxK2 == 3       \* enumerated Tukey factors are 0/2..MaxK2/2
MaxPct8 == 3     \* enumerated percentile fractions are 0/8..MaxPct8/8

\* ------------------------------------------------- extended rational numbers
AbsInt(i) == IF i < 0 THEN -i ELSE i

SignInt(i) == IF i < 0 THEN -1 ELSE IF i > 0 THEN 1 ELSE 0

Rat(n, d) == [n |-> n, d |-> d]

Int2Rat(i) == Rat(i, 1)

NaN == Rat(0, 0)

IsNaN(x) == x.d = 0 /\ x.n = 0

IsFinite(x) == x.d > 0

\* IEEE-754 comparison: every comparison with NaN is false.
RLt(a, b) ==
    IF IsNaN(a) \/ IsNaN(b) THEN FALSE
    ELSE IF a.d = 0 /\ b.d = 0 THEN a.n < b.n
    ELSE a.n * b.d < b.n * a.d

RLe(a, b) ==
    IF IsNaN(a) \/ IsNaN(b) THEN FALSE
    ELSE IF a.d = 0 /\ b.d = 0 THEN a.n <= b.n
    ELSE a.n * b.d <= b.n * a.d

RGe(a, b) == RLe(b, a)

RNeg(a) == Rat(-a.n, a.d)

RAbs(a) == Rat(AbsInt(a.n), a.d)

RECURSIVE GCD(_, _)
GCD(a, b) == IF b = 0 THEN a ELSE GCD(b, a % b)

\* Lowest terms, so that equal finite values are equal records.
RNorm(x) ==
    IF x.d = 0 THEN Rat(SignInt(x.n), 0)
    ELSE LET g == GCD(AbsInt(x.n), x.d) IN Rat(x.n \div g, x.d \div g)

\* a + b, a - b, a * b on finite values; a non-finite operand gives NaN
\* (the model never adds or multiplies infinities with a defined result).
RAdd(a, b) ==
    IF IsFinite(a) /\ IsFinite(b)
    THEN LET g == GCD(a.d, b.d)
         IN  RNorm(Rat(a.n * (b.d \div g) + b.n * (a.d \div g), a.d * (b.d \div g)))
    ELSE NaN

RSub(a, b) == RAdd(a, RNeg(b))

RMul(a, b) ==
    IF IsFinite(a) /\ IsFinite(b)
    THEN LET x  == RNorm(a)
             y  == RNorm(b)
             g1 == GCD(AbsInt(x.n), y.d)
             g2 == GCD(AbsInt(y.n), x.d)
         IN  Rat((x.n \div g1) * (y.n \div g2), (x.d \div g2) * (y.d \div g1))
    ELSE NaN

\* Mutant of RDiv: a zero divisor always gives NaN, never an infinity.
RDiv_NaNOnZeroDivide(a, b) ==
    IF ~(IsFinite(a) /\ IsFinite(b)) THEN NaN
    ELSE IF b.n = 0 THEN NaN
    ELSE IF b.n < 0 THEN RMul(a, Rat(-b.d, -b.n))
    ELSE RMul(a, Rat(b.d, b.n))

\* Mutant of RDiv: a guarded division that gives 0 for a zero divisor.
RDiv_ZeroOnZeroDivide(a, b) ==
    IF ~(IsFinite(a) /\ IsFinite(b)) THEN NaN
    ELSE IF b.n = 0 THEN Int2Rat(0)
    ELSE IF b.n < 0 THEN RMul(a, Rat(-b.d, -b.n))
    ELSE RMul(a, Rat(b.d, b.n))

\* Float division: x / 0 is +inf, -inf or NaN by the sign of x.
RDiv(a, b) ==
    IF ~(IsFinite(a) /\ IsFinite(b)) THEN NaN
    ELSE IF b.n = 0 THEN Rat(SignInt(a.n), 0)
    ELSE IF b.n < 0 THEN RMul(a, Rat(-b.d, -b.n))
    ELSE RMul(a, Rat(b.d, b.n))

\* ------------------------------------------------------------ array helpers
RECURSIVE SumSeq(_)
SumSeq(s) == IF s = <<>> THEN 0 ELSE Head(s) + SumSeq(Tail(s))

RECURSIVE ProdSeq(_)
ProdSeq(s) == IF s = <<>> THEN 1 ELSE Head(s) * ProdSeq(Tail(s))

MapSeq(s, F(_)) == [i \in 1..Len(s) |-> F(s[i])]

Array(shape, flat) == [shape |-> shape, flat |-> flat]

NDim(a) == Len(a.shape)

SortRat(s) == SortSeq(s, LAMBDA a, b : RLt(a, b))

HasNaN(s) == \E i \in 1..Len(s) : IsNaN(s[i])

\* ---------------------------------------------------------- numpy statistics
RECURSIVE RSum(_)
RSum(s) == IF s = <<>> THEN Int2Rat(0) ELSE RAdd(Head(s), RSum(Tail(s)))

\* np.mean over the flattened values.
np_mean(s) == RDiv(RSum(s), Int2Rat(Len(s)))

\* Mutant of np_var: the sample variance (ddof = 1) instead of the population
\* variance.
np_var_SampleVariance(s) ==
    LET m == np_mean(s)
    IN  RDiv(RSum([i \in 1..Len(s) |-> RMul(RSub(s[i], m), RSub(s[i], m))]),
             Int2Rat(Len(s) - 1))

\* np.std squared: the population variance mean(|x - mean|^2) (ddof = 0).
\* The standard deviation itself is irrational in general, so the model
\* carries its square and compares squares (see AbsLtBySquare).
np_var(s) ==
    LET m == np_mean(s)
    IN  np_mean([i \in 1..Len(s) |-> RMul(RSub(s[i], m), RSub(s[i], m))])

\* np.median of finite values: the middle order statistic, or the mean of
\* the two middle ones.
np_median(s) ==
    LET t == SortRat(s)
        n == Len(s)
    IN  IF n % 2 = 1 THEN t[(n + 1) \div 2]
        ELSE RDiv(RAdd(t[n \div 2], t[n \div 2 + 1]), Int2Rat(2))

\* Mutant of np_percentile: method "lower", the order statistic at the floor
\* of the position, without interpolation.
np_percentile_Lower(s, q) ==
    IF HasNaN(s) THEN NaN
    ELSE LET t    == SortRat(s)
             n    == Len(s)
             pos  == RMul(Int2Rat(n - 1), RDiv(q, Int2Rat(100)))
             lo   == pos.n \div pos.d
         IN  t[lo + 1]

\* np.percentile(s, q), q in percent, default method "linear": position
\* (n-1)*q/100 in the sorted values, linear interpolation between neighbours.
\* A NaN among the values makes the result NaN.
np_percentile(s, q) ==
    IF HasNaN(s) THEN NaN
    ELSE LET t    == SortRat(s)
             n    == Len(s)
             pos  == RMul(Int2Rat(n - 1), RDiv(q, Int2Rat(100)))
             lo   == pos.n \div pos.d
             frac == RSub(pos, Int2Rat(lo))
         IN  IF frac.n = 0 THEN t[lo + 1]
             ELSE RAdd(t[lo + 1], RMul(frac, RSub(t[lo + 2], t[lo + 1])))

\* np.percentile rejects q outside [0, 100] with a ValueError.
QInRange(q) == RLe(Int2Rat(0), q) /\ RLe(q, Int2Rat(100))

\* ------------------------------------------------- values, tables, selectors
\* What a call returns or takes as a threshold: None, a 0-d number
\* (shape <<>>), a numeric array or a boolean mask.
NoneValue == [kind |-> "None", shape |-> <<>>, flat |-> <<>>]

Scalar(r) == [kind |-> "number", shape |-> <<>>, flat |-> <<r>>]

NumArray(shape, flat) == [kind |-> "number", shape |-> shape, flat |-> flat]

Mask(shape, flat) == [kind |-> "bool", shape |-> shape, flat |-> flat]

\* Column selectors: None, an int or a str.
SelNone == [type |-> "NoneType", index |-> 0, name |-> ""]

SelInt(i) == [type |-> "int", index |-> i, name |-> ""]

SelStr(s) == [type |-> "str", index |-> 0, name |-> s]

\* A labeled table (pandas.DataFrame) or an unlabeled array (numpy.ndarray).
DataFrame(columns, rows, flat) ==
    [kind |-> "DataFrame", columns |-> columns,
     shape |-> <<rows, Len(columns)>>, flat |-> flat]

NDArray(shape, flat) ==
    [kind |-> "ndarray", columns |-> <<>>, shape |-> shape, flat |-> flat]

\* Mutant of ColumnOf: the selector is ignored and the first column is taken.
ColumnOf_FirstColumn(t, c) ==
    LET rows == t.shape[1]
        cols == t.shape[2]
    IN  Array(<<rows>>, [r \in 1..rows |-> Int2Rat(t.flat[(r - 1) * cols + 1])])

\* Column c (1-based) of a row-major 2-D table, as a 1-D array.
ColumnOf(t, c) ==
    LET rows == t.shape[1]
        cols == t.shape[2]
    IN  Array(<<rows>>, [r \in 1..rows |-> Int2Rat(t.flat[(r - 1) * cols + c])])

AllOf(t) == Array(t.shape, MapSeq(t.flat, Int2Rat))

ColumnPos(columns, name) == CHOOSE c \in 1..Len(columns) : columns[c] = name

Raise(exc, computed) == [status |-> exc, value |-> NoneValue, computed |-> computed]

Return(value, computed) == [status |-> "ok", value |-> value, computed |-> computed]

\* Mutant of SelectorBranch: the isinstance checks on data are dropped, so an
\* int selects by position and a str by name whatever the table is.
SelectorBranch_NoTableCheck(data, column) ==
    IF column.type = "str" THEN "column_name"
    ELSE IF column.type = "int" THEN "column_index"
    ELSE IF data.kind = "DataFrame" THEN "frame_values"
    ELSE "array_itself"

\* The isinstance chain of validate_column: which branch takes the call.
SelectorBranch(data, column) ==
    IF column.type = "str" /\ data.kind = "DataFrame" THEN "column_name"
    ELSE IF column.type = "NoneType" /\ data.kind = "DataFrame" THEN "frame_values"
    ELSE IF column.type = "int" /\ data.kind = "ndarray" THEN "column_index"
    ELSE IF column.type = "NoneType" /\ data.kind = "ndarray" THEN "array_itself"
    ELSE "invalid"

Resolved(arr) == [status |-> "ok", arr |-> arr]

Unresolved(exc) == [status |-> exc, arr |-> Array(<<>>, <<>>)]

\* validate_column: the array the statistics run on, or the exception.
\* data[column] of a missing name is a KeyError; data[:, column] of a 1-D
\* array or of an index past the last column is an IndexError.
validate_column(data, column) ==
    LET branch == SelectorBranch(data, column)
    IN  IF branch = "column_name"
        THEN IF \E c \in 1..Len(data.columns) : data.columns[c] = column.name
             THEN Resolved(ColumnOf(data, ColumnPos(data.columns, column.name)))
             ELSE Unresolved("KeyError")
        ELSE IF branch = "frame_values" THEN Resolved(AllOf(data))
        ELSE IF branch = "column_index"
        THEN IF NDim(data) = 2 /\ column.index < data.shape[2]
             THEN Resolved(ColumnOf(data, column.index + 1))
             ELSE Unresolved("IndexError")
        ELSE IF branch = "array_itself" THEN Resolved(AllOf(data))
        ELSE Unresolved("OutlierValidationException")

\* ------------------------------------------- elementwise comparison (numpy)
LastDim(shape) == shape[Len(shape)]

\* numpy broadcasting of an array against a 0-d or 1-D operand.
CanBroadcast(a, v) ==
    \/ Len(v.shape) = 0
    \/ /\ Len(v.shape) = 1
       /\ \/ LastDim(a.shape) = v.shape[1]
          \/ LastDim(a.shape) = 1
          \/ v.shape[1] = 1

BroadcastShape(a, v) ==
    IF Len(v.shape) = 1 /\ LastDim(a.shape) = 1
    THEN [i \in 1..Len(a.shape) |-> IF i = Len(a.shape) THEN v.shape[1] ELSE a.shape[i]]
    ELSE a.shape

\* a <op> v elementwise, as a boolean mask of the broadcast shape.
Compare(a, v, Op(_, _)) ==
    LET shape == BroadcastShape(a, v)
        m     == IF Len(v.shape) = 0 THEN 1 ELSE v.shape[1]
        ai(j) == IF Len(shape) > 0 /\ LastDim(a.shape) = 1 /\ m > 1
                 THEN ((j - 1) \div m) + 1 ELSE j
        vi(j) == ((j - 1) % m) + 1
    IN  Mask(shape, [j \in 1..ProdSeq(shape) |-> Op(a.flat[ai(j)], v.flat[vi(j)])])

NegValue(v) == NumArray(v.shape, MapSeq(v.flat, RNeg))

MaskAnd(p, q) == Mask(p.shape, [j \in 1..Len(p.flat) |-> p.flat[j] /\ q.flat[j]])

\* |z| < t where the model holds z2 = z^2 (z = dev / std, std a square root):
\* |z| < t  iff  t > 0 and z^2 < t^2; false when z is NaN.
AbsLtBySquare(z2, t) == RLt(Int2Rat(0), t) /\ RLt(z2, RMul(t, t))

\* ------------------------------------------------------ the six operations

\* Mutant of remove_outliers_z_score: the mask is already applied, so only
\* the entries of the retained observations come back.
remove_outliers_z_score_ReturnsRetained(data, column, threshold) ==
    LET v == validate_column(data, column)
    IN  IF v.status # "ok" THEN Raise(v.status, {})
        ELSE LET mean == np_mean(v.arr.flat)
                 var  == np_var(v.arr.flat)
                 z2   == Array(v.arr.shape,
                               [i \in 1..Len(v.arr.flat) |->
                                   LET dev == RSub(v.arr.flat[i], mean)
                                   IN  RDiv(RMul(dev, dev), var)])
             IN  IF ~CanBroadcast(z2, threshold) THEN Raise("ValueError", {"mean", "std"})
                 ELSE LET m    == Compare(z2, threshold, AbsLtBySquare)
                          kept == SelectSeq(m.flat, LAMBDA b : b)
                      IN  Return(Mask(<<Len(kept)>>, kept), {"mean", "std"})

\* remove_outliers_z_score: z = |(x - mean) / std| < threshold.
remove_outliers_z_score(data, column, threshold) ==
    LET v == validate_column(data, column)
    IN  IF v.status # "ok" THEN Raise(v.status, {})
        ELSE LET mean == np_mean(v.arr.flat)
                 var  == np_var(v.arr.flat)
                 z2   == Array(v.arr.shape,
                               [i \in 1..Len(v.arr.flat) |->
                                   LET dev == RSub(v.arr.flat[i], mean)
                                   IN  RDiv(RMul(dev, dev), var)])
             IN  IF ~CanBroadcast(z2, threshold) THEN Raise("ValueError", {"mean", "std"})
                 ELSE Return(Compare(z2, threshold, AbsLtBySquare), {"mean", "std"})

\* Mutant of TukeyFences: the signs are swapped, so the fences narrow the
\* interquartile range instead of widening it.
TukeyFences_Narrowed(Q1, Q3, k) ==
    LET IQR == RSub(Q3, Q1)
    IN  <<RAdd(Q1, RMul(k, IQR)), RSub(Q3, RMul(k, IQR))>>

\* The fences <<Q1 - k*IQR, Q3 + k*IQR>>.
TukeyFences(Q1, Q3, k) ==
    LET IQR == RSub(Q3, Q1)
    IN  <<RSub(Q1, RMul(k, IQR)), RAdd(Q3, RMul(k, IQR))>>

\* remove_outliers_tukey: Q1 - k*IQR <= x <= Q3 + k*IQR.
remove_outliers_tukey(data, column, k) ==
    LET v == validate_column(data, column)
    IN  IF v.status # "ok" THEN Raise(v.status, {})
        ELSE LET Q1  == np_percentile(v.arr.flat, Int2Rat(25))
                 Q3  == np_percentile(v.arr.flat, Int2Rat(75))
                 lo  == Scalar(TukeyFences(Q1, Q3, k)[1])
                 hi  == Scalar(TukeyFences(Q1, Q3, k)[2])
             IN  Return(MaskAnd(Compare(v.arr, lo, RGe), Compare(v.arr, hi, RLe)),
                        {"percentile"})

\* Mutant of RobustZ: the scores are centred on the mean, not the median.
RobustZ_MeanCentered(arr) ==
    LET median == np_median(arr.flat)
        mad    == np_median(MapSeq(arr.flat, LAMBDA x : RAbs(RSub(x, median))))
    IN  Array(arr.shape,
              MapSeq(arr.flat, LAMBDA x : RDiv(RSub(x, np_mean(arr.flat)), mad)))

\* (data - median) / mad, shared by the two robust functions.
RobustZ(arr) ==
    LET median == np_median(arr.flat)
        mad    == np_median(MapSeq(arr.flat, LAMBDA x : RAbs(RSub(x, median))))
    IN  Array(arr.shape, MapSeq(arr.flat, LAMBDA x : RDiv(RSub(x, median), mad)))

\* remove_outliers_robust_z_score.
remove_outliers_robust_z_score(data, column, threshold, outlier_type) ==
    LET v == validate_column(data, column)
    IN  IF v.status # "ok" THEN Raise(v.status, {})
        ELSE LET robust_z_scores == RobustZ(v.arr)
                 done == {"median", "mad"}
             IN  IF outlier_type \notin {"upper", "lower", "both"}
                 THEN Raise("ValueError", done)
                 ELSE IF ~CanBroadcast(robust_z_scores, threshold)
                 THEN Raise("ValueError", done)
                 ELSE IF outlier_type = "upper"
                 THEN Return(Compare(robust_z_scores, threshold, RLe), done)
                 ELSE IF outlier_type = "lower"
                 THEN Return(Compare(robust_z_scores, NegValue(threshold), RGe), done)
                 ELSE Return(Compare(Array(v.arr.shape, MapSeq(robust_z_scores.flat, RAbs)),
                                     threshold, RLt), done)


\* Mutant of remove_outliers_percentile: a side that is none of the three
\* names falls through to the "both" branch instead of raising.
remove_outliers_percentile_DefaultsToBoth(data, column, percentile, outlier_type) ==
    LET v == validate_column(data, column)
    IN  IF v.status # "ok" THEN Raise(v.status, {})
        ELSE LET robust_z_scores == RobustZ(v.arr)
                 qlo  == RMul(percentile, Int2Rat(100))
                 qhi  == RSub(Int2Rat(100), RMul(percentile, Int2Rat(100)))
                 done == {"median", "mad"}
             IN  IF ~(QInRange(qlo) /\ QInRange(qhi))
                 THEN Raise("ValueError", done)
                 ELSE IF outlier_type = "upper"
                 THEN Return(Scalar(np_percentile(robust_z_scores.flat, qhi)),
                             done \cup {"percentile"})
                 ELSE IF outlier_type = "lower"
                 THEN Return(Scalar(np_percentile(robust_z_scores.flat, qlo)),
                             done \cup {"percentile"})
                 ELSE Return(NumArray(<<2>>, <<np_percentile(robust_z_scores.flat, qlo),
                                              np_percentile(robust_z_scores.flat, qhi)>>),
                             done \cup {"percentile"})


\* Mutant of remove_outliers_percentile: the "both" branch returns the upper
\* percentile first and the lower one second.
remove_outliers_percentile_BothSwapped(data, column, percentile, outlier_type) ==
    LET v == validate_column(data, column)
    IN  IF v.status # "ok" THEN Raise(v.status, {})
        ELSE LET robust_z_scores == RobustZ(v.arr)
                 qlo  == RMul(percentile, Int2Rat(100))
                 qhi  == RSub(Int2Rat(100), RMul(percentile, Int2Rat(100)))
                 done == {"median", "mad"}
             IN  IF outlier_type \notin {"upper", "lower", "both"}
                 THEN Raise("ValueError", done)
                 ELSE IF ~(QInRange(qlo) /\ QInRange(qhi))
                 THEN Raise("ValueError", done)
                 ELSE IF outlier_type = "upper"
                 THEN Return(Scalar(np_percentile(robust_z_scores.flat, qhi)),
                             done \cup {"percentile"})
                 ELSE IF outlier_type = "lower"
                 THEN Return(Scalar(np_percentile(robust_z_scores.flat, qlo)),
                             done \cup {"percentile"})
                 ELSE Return(NumArray(<<2>>, <<np_percentile(robust_z_scores.flat, qhi),
                                              np_percentile(robust_z_scores.flat, qlo)>>),
                             done \cup {"percentile"})

\* remove_outliers_percentile: a percentile of the robust z-scores.
remove_outliers_percentile(data, column, percentile, outlier_type) ==
    LET v == validate_column(data, column)
    IN  IF v.status # "ok" THEN Raise(v.status, {})
        ELSE LET robust_z_scores == RobustZ(v.arr)
                 qlo  == RMul(percentile, Int2Rat(100))
                 qhi  == RSub(Int2Rat(100), RMul(percentile, Int2Rat(100)))
                 done == {"median", "mad"}
             IN  IF outlier_type \notin {"upper", "lower", "both"}
                 THEN Raise("ValueError", done)
                 ELSE IF ~(QInRange(qlo) /\ QInRange(qhi))
                 THEN Raise("ValueError", done)
                 ELSE IF outlier_type = "upper"
                 THEN Return(Scalar(np_percentile(robust_z_scores.flat, qhi)),
                             done \cup {"percentile"})
                 ELSE IF outlier_type = "lower"
                 THEN Return(Scalar(np_percentile(robust_z_scores.flat, qlo)),
                             done \cup {"percentile"})
                 ELSE Return(NumArray(<<2>>, <<np_percentile(robust_z_scores.flat, qlo),
                                              np_percentile(robust_z_scores.flat, qhi)>>),
                             done \cup {"percentile"})


\* Mutant of remove_outliers_truncated_mean: the bounds are exclusive.
remove_outliers_truncated_mean_Exclusive(data, column, percentage) ==
    LET v == validate_column(data, column)
    IN  IF v.status # "ok" THEN Raise(v.status, {})
        ELSE IF ~(QInRange(percentage) /\ QInRange(RSub(Int2Rat(100), percentage)))
        THEN Raise("ValueError", {})
        ELSE LET lower == Scalar(np_percentile(v.arr.flat, percentage))
                 upper == Scalar(np_percentile(v.arr.flat, RSub(Int2Rat(100), percentage)))
             IN  Return(MaskAnd(Compare(v.arr, lower, LAMBDA x, y : RLt(y, x)),
                                Compare(v.arr, upper, RLt)),
                        {"percentile"})

\* Mutant of remove_outliers_truncated_mean: a percentage above 50 is
\* rejected with ValueError.
remove_outliers_truncated_mean_Validated(data, column, percentage) ==
    LET v == validate_column(data, column)
    IN  IF v.status # "ok" THEN Raise(v.status, {})
        ELSE IF ~(QInRange(percentage) /\ RLe(percentage, Int2Rat(50)))
        THEN Raise("ValueError", {})
        ELSE LET lower == Scalar(np_percentile(v.arr.flat, percentage))
                 upper == Scalar(np_percentile(v.arr.flat, RSub(Int2Rat(100), percentage)))
             IN  Return(MaskAnd(Compare(v.arr, lower, RGe), Compare(v.arr, upper, RLe)),
                        {"percentile"})

\* remove_outliers_truncated_mean: lower <= x <= upper, percentage in 0..100.
remove_outliers_truncated_mean(data, column, percentage) ==
    LET v == validate_column(data, column)
    IN  IF v.status # "ok" THEN Raise(v.status, {})
        ELSE IF ~(QInRange(percentage) /\ QInRange(RSub(Int2Rat(100), percentage)))
        THEN Raise("ValueError", {})
        ELSE LET lower == Scalar(np_percentile(v.arr.flat, percentage))
                 upper == Scalar(np_percentile(v.arr.flat, RSub(Int2Rat(100), percentage)))
             IN  Return(MaskAnd(Compare(v.arr, lower, RGe), Compare(v.arr, upper, RLe)),
                        {"percentile"})

\* a.argsort(): the positions of a in ascending order of value.
ArgSort(a) ==
    SortSeq([i \in 1..Len(a) |-> i],
            LAMBDA i, j : RLt(a[i], a[j]) \/ (a[i] = a[j] /\ i < j))

\* int(limit * n)
IntOfProduct(limit, n) == LET p == RMul(limit, Int2Rat(n)) IN p.n \div p.d


\* Mutant of Winsorize1D: the values come back in ascending order, not at
\* their own positions.
Winsorize1D_Sorted(a, low_limit, up_limit) ==
    LET n      == Len(a)
        idx    == ArgSort(a)
        lowidx == IntOfProduct(low_limit, n)
        upidx  == n - IntOfProduct(up_limit, n)
    IN  [r \in 1..n |->
            IF low_limit.n # 0 /\ r <= lowidx THEN a[idx[lowidx + 1]]
            ELSE IF r > upidx THEN a[idx[upidx]]
            ELSE a[idx[r]]]

\* Mutant of Winsorize1D: the replacement values are taken one rank too far
\* out (the last replaced value instead of the first kept one).
Winsorize1D_OffByOne(a, low_limit, up_limit) ==
    LET n      == Len(a)
        idx    == ArgSort(a)
        lowidx == IntOfProduct(low_limit, n)
        b      == IF low_limit.n = 0 \/ lowidx = 0 THEN a
                  ELSE [i \in 1..n |->
                          IF \E r \in 1..lowidx : idx[r] = i
                          THEN a[idx[lowidx]] ELSE a[i]]
        upidx  == n - IntOfProduct(up_limit, n)
    IN  [i \in 1..n |->
            IF \E r \in (upidx + 1)..n : idx[r] = i THEN b[idx[upidx + 1]] ELSE b[i]]

\* scipy.stats.mstats.winsorize on a copy of the flattened data (inplace is
\* False, inclusive is (True, True)): the int(low*n) smallest values become
\* the next smallest one, then the int(up*n) largest become the next largest.
Winsorize1D(a, low_limit, up_limit) ==
    LET n      == Len(a)
        idx    == ArgSort(a)
        lowidx == IntOfProduct(low_limit, n)
        b      == IF low_limit.n = 0 THEN a
                  ELSE [i \in 1..n |->
                          IF \E r \in 1..lowidx : idx[r] = i
                          THEN a[idx[lowidx + 1]] ELSE a[i]]
        upidx  == n - IntOfProduct(up_limit, n)
    IN  [i \in 1..n |->
            IF \E r \in (upidx + 1)..n : idx[r] = i THEN b[idx[upidx]] ELSE b[i]]

\* winsorize_data: limits outside [0, 1] are a ValueError of winsorize.
winsorize_data(data, column, limits) ==
    LET v == validate_column(data, column)
        inUnit(l) == RLe(Int2Rat(0), l) /\ RLe(l, Int2Rat(1))
    IN  IF v.status # "ok" THEN Raise(v.status, {})
        ELSE IF ~(inUnit(limits[1]) /\ inUnit(limits[2])) THEN Raise("ValueError", {})
        ELSE Return(NumArray(v.arr.shape, Winsorize1D(v.arr.flat, limits[1], limits[2])),
                    {"winsorize"})

\* Mutant of InputAfterWinsorize: winsorize runs with inplace=True on the
\* caller's array, so the replaced values show in the caller's object.
InputAfterWinsorize_Inplace(data, column, limits) ==
    LET out == winsorize_data(data, column, limits)
    IN  IF out.status = "ok" /\ SelectorBranch(data, column) = "array_itself"
        THEN [data EXCEPT !.flat = [j \in 1..Len(data.flat) |-> out.value.flat[j].n]]
        ELSE data

\* The caller's table after winsorize_data: winsorize is called without
\* inplace, so it works on a copy (ma.array(a, copy=True)) and the caller's
\* object keeps its values.
InputAfterWinsorize(data, column, limits) == data

\* ------------------------------------------------------------------ inputs
ColumnNames == <<"a", "b">>

\* The two samples of the documented scenarios.
ScenarioZ == <<1, 2, 3, 4, 5, 100>>

ScenarioTukey == <<10, 12, 11, 13, 12, 1000>>

Samples ==
    UNION {[1..n -> 0..MaxVal] : n \in 1..MaxLen} \cup {ScenarioZ, ScenarioTukey}

\* The enumerated 2-D tables have two columns and one or two rows.
Cells == UNION {[1..(r * Len(ColumnNames)) -> 0..MaxCell] : r \in 1..Len(ColumnNames)}

Tables ==
    {NDArray(<<Len(s)>>, s) : s \in Samples}
    \cup {NDArray(<<Len(c) \div Len(ColumnNames), Len(ColumnNames)>>, c) : c \in Cells}
    \cup {DataFrame(ColumnNames, Len(c) \div Len(ColumnNames), c) : c \in Cells}

\* None, the indexes 0..2 (2 is past the last column) and the names a, b, c
\* (c is no column).
Selectors ==
    {SelNone} \cup {SelInt(i) : i \in 0..Len(ColumnNames)}
    \cup {SelStr(s) : s \in {"a", "b", "c"}}

Thresholds == {Scalar(Int2Rat(t)) : t \in -1..MaxThr}

TukeyFactors == {Rat(j, 2) : j \in 0..MaxK2}

Percentiles == {Rat(j, 8) : j \in 0..MaxPct8}

Sides == {"upper", "lower", "both", "sideways"}

Percentages == {Int2Rat(p) : p \in {0, 10, 25, 50, 60, 100}}

Limits == {<<Rat(i, 4), Rat(j, 4)>> : i, j \in 0..2}

\* -------------------------------------------------------- dataset loaders
\* The file system is a function from the paths below to what each file
\* holds; Absent stands for "no such file".
Absent == "absent"

BostonCsv == "datasets/boston_housing/boston_housing.csv"

CaliforniaCsv == "datasets/california_housing/california_housing.csv"

CaliforniaTgz == "datasets/california_housing/california_housing.tgz"

UserCsvs == {"data/first.csv", "data/second.csv"}

\* The pickled model the app loads.
ModelPkl == "trained_models/boston_housing/catboost_regressor.pkl"

Paths == {BostonCsv, CaliforniaCsv, CaliforniaTgz, ModelPkl} \cup UserCsvs

\* What _save_boston_housing_locally writes: the table built from the remote
\* file, as CSV text.
BostonCsvFromRemote == "boston_housing.csv written from http://lib.stat.cmu.edu/datasets/boston"

\* What the tarball's housing/housing.csv holds.
CaliforniaCsvFromTarball == "housing.csv extracted from california_housing.tgz"

\* os.path.isfile / Path.is_file
is_file(fs, path) == path \in DOMAIN fs /\ fs[path] # Absent

\* pd.read_csv: the table parsed from the text of the file.
read_csv(fs, path) == [kind |-> "DataFrame", parsed_from |-> fs[path]]

\* The file system and the number of requests made to the remote source.
World(fs, requests) == [files |-> fs, remote |-> requests]

Outcome(w, res) == [files |-> w.files, remote |-> w.remote, result |-> res]

\* _save_boston_housing_locally: one request to the remote source, then
\* result.to_csv(csv_path).
save_boston_housing_locally(fs, requests, csv_path) ==
    World([fs EXCEPT ![csv_path] = BostonCsvFromRemote], requests + 1)

\* Mutant of load_boston_housing_data: the is_file test is gone, so every
\* call downloads and rewrites the file.
load_boston_housing_data_AlwaysDownloads(fs, requests) ==
    LET w == save_boston_housing_locally(fs, requests, BostonCsv)
    IN  Outcome(w, Return(read_csv(w.files, BostonCsv), {}))

\* load_boston_housing_data: download when the CSV is not a file, then read
\* the CSV.
load_boston_housing_data(fs, requests) ==
    LET w == IF ~is_file(fs, BostonCsv)
             THEN save_boston_housing_locally(fs, requests, BostonCsv)
             ELSE World(fs, requests)
    IN  Outcome(w, Return(read_csv(w.files, BostonCsv), {}))

\* load_california_housing_data: extract the tarball and move housing.csv
\* into place when the CSV is not a file, then read the CSV.
load_california_housing_data(fs, requests) ==
    IF is_file(fs, CaliforniaCsv)
    THEN Outcome(World(fs, requests), Return(read_csv(fs, CaliforniaCsv), {}))
    ELSE IF ~is_file(fs, CaliforniaTgz)
    THEN Outcome(World(fs, requests), Raise("FileNotFoundError", {}))
    ELSE LET w == World([fs EXCEPT ![CaliforniaCsv] = CaliforniaCsvFromTarball], requests)
         IN  Outcome(w, Return(read_csv(w.files, CaliforniaCsv), {}))

\* load_full_dataset
load_full_dataset(fs, requests, dataset_name) ==
    IF dataset_name = "boston_housing" THEN load_boston_housing_data(fs, requests)
    ELSE IF dataset_name = "california_housing"
    THEN load_california_housing_data(fs, requests)
    ELSE Outcome(World(fs, requests), Raise("ValueError", {}))

known_datasets == {"boston_housing", "california_housing"}

\* Mutant of load_data_body: the argument is never tried as a file path.
load_data_body_NamesOnly(fs, requests, dataset) ==
    IF dataset \in known_datasets THEN load_full_dataset(fs, requests, dataset)
    ELSE Outcome(World(fs, requests), Raise("ValueError", {}))

\* The body of load_data: a file path first, then a known name, else
\* ValueError.
load_data_body(fs, requests, dataset) ==
    IF is_file(fs, dataset)
    THEN Outcome(World(fs, requests), Return(read_csv(fs, dataset), {}))
    ELSE IF dataset \in known_datasets THEN load_full_dataset(fs, requests, dataset)
    ELSE Outcome(World(fs, requests), Raise("ValueError", {}))

\* The arguments load_data is called with: the two names, paths of files
\* that may exist, and a string that is neither.
DatasetArgs ==
    known_datasets \cup {BostonCsv} \cup UserCsvs \cup {"non_existent_dataset"}

NoEntry == [kind |-> "no entry"]

EmptyMemo == [a \in DatasetArgs |-> NoEntry]

\* load_data as decorated with st.cache_data: a stored result is returned
\* without running the body; a result the body returns is stored under the
\* argument; an exception stores nothing.
load_data(fs, requests, stored, dataset) ==
    IF stored[dataset] # NoEntry
    THEN [files |-> fs, remote |-> requests, memo |-> stored,
          result |-> Return(stored[dataset], {}), body_ran |-> FALSE]
    ELSE LET out == load_data_body(fs, requests, dataset)
         IN  [files |-> out.files, remote |-> out.remote,
              memo |-> IF out.result.status = "ok"
                       THEN [stored EXCEPT ![dataset] = out.result.value]
                       ELSE stored,
              result |-> out.result, body_ran |-> TRUE]

\* pickle.load(open(model_path, "rb")): the object the file holds; open
\* raises FileNotFoundError when there is no such file.
load_model_body(fs, model_path) ==
    IF is_file(fs, model_path)
    THEN Return([kind |-> "model", unpickled_from |-> fs[model_path]], {})
    ELSE Raise("FileNotFoundError", {})

\* The arguments load_model is called with: the model's path and a path
\* where no file is.
ModelArgs == {ModelPkl, "trained_models/boston_housing/no_such_model.pkl"}

EmptyResources == [a \in ModelArgs |-> NoEntry]

\* Mutant of load_model: the store has one slot, so a stored result is
\* returned whatever the argument.
load_model_OneSlot(fs, stored, model_path) ==
    IF \E a \in DOMAIN stored : stored[a] # NoEntry
    THEN [resources |-> stored,
          result |-> Return(stored[CHOOSE a \in DOMAIN stored : stored[a] # NoEntry], {}),
          body_ran |-> FALSE]
    ELSE LET res == load_model_body(fs, model_path)
         IN  [resources |-> IF res.status = "ok"
                            THEN [stored EXCEPT ![model_path] = res.value]
                            ELSE stored,
              result |-> res, body_ran |-> TRUE]

\* load_model as decorated with st.cache_resource: as load_data, with a
\* store of its own.
load_model(fs, stored, model_path) ==
    IF stored[model_path] # NoEntry
    THEN [resources |-> stored, result |-> Return(stored[model_path], {}),
          body_ran |-> FALSE]
    ELSE LET res == load_model_body(fs, model_path)
         IN  [resources |-> IF res.status = "ok"
                            THEN [stored EXCEPT ![model_path] = res.value]
                            ELSE stored,
              result |-> res, body_ran |-> TRUE]

\* The file systems a run can start from: each CSV is there or not (one that
\* is there was put there earlier and holds whatever it holds); the tarball
\* is part of the installed package.
KeptCsv(path) == "kept " \o path

FileSystems ==
    {fs \in [Paths -> {Absent} \cup {KeptCsv(p) : p \in Paths}] :
        /\ fs[CaliforniaTgz] = KeptCsv(CaliforniaTgz)
        /\ \A p \in Paths : fs[p] \in {Absent, KeptCsv(p)}}

\* ------------------------------------------------- the hashed-id split
\* Longest enumerated table of the split.
MaxRows == 2

\* A 32-bit word is the pair of its upper and lower 16 bits.
Xor(a, b) == (a + b) % 2

RECURSIVE XorN(_, _, _)
XorN(a, b, bits) ==
    IF bits = 0 THEN 0
    ELSE Xor(a % 2, b % 2) + 2 * XorN(a \div 2, b \div 2, bits - 1)

XorWord(x, y) == <<XorN(x[1], y[1], 16), XorN(x[2], y[2], 16)>>

ShiftRight1(x) == <<x[1] \div 2, (x[2] \div 2) + 32768 * (x[1] % 2)>>

\* The reflected CRC-32 polynomial of zlib, EDB8 8320 in hexadecimal.
Crc32Polynomial == <<60856, 33568>>

AllOnes == <<65535, 65535>>

\* One step of the division by the polynomial.
Crc32Step(word) ==
    IF word[2] % 2 = 1
    THEN XorWord(ShiftRight1(word), Crc32Polynomial)
    ELSE ShiftRight1(word)

RECURSIVE Crc32Steps(_, _)
Crc32Steps(word, steps) ==
    IF steps = 0 THEN word ELSE Crc32Step(Crc32Steps(word, steps - 1))

\* zlib's table: the entry of a byte is the byte after eight steps.
Crc32Table(byte) == Crc32Steps(<<0, byte>>, 8)

ShiftRight8(x) == <<x[1] \div 256, (x[2] \div 256) + 256 * (x[1] % 256)>>

\* One byte of input: the word shifted by a byte, combined with the table's
\* entry for the word's last byte combined with the input byte.
Crc32Byte(crc, byte) ==
    XorWord(ShiftRight8(crc), Crc32Table(XorN(crc[2] % 256, byte, 8)))

\* The word after the first upto bytes of the input.
RECURSIVE Crc32Bytes(_, _, _)
Crc32Bytes(crc, bytes, upto) ==
    IF upto = 0 THEN crc
    ELSE Crc32Byte(Crc32Bytes(crc, bytes, upto - 1), bytes[upto])

RECURSIVE Pow(_, _)
Pow(b, k) == IF k = 0 THEN 1 ELSE b * Pow(b, k - 1)

\* zlib.crc32 of a buffer.
crc32(bytes) == XorWord(Crc32Bytes(AllOnes, bytes, Len(bytes)), AllOnes)

Int32Byte(identifier, k) == (identifier \div Pow(256, k - 1)) % 256

\* np.int64(identifier) as a buffer: eight bytes, least significant first,
\* two's complement (identifiers here fit 32 bits).
int64_bytes(identifier) ==
    LET high == IF identifier < 0 THEN 255 ELSE 0
    IN  <<Int32Byte(identifier, 1), Int32Byte(identifier, 2),
          Int32Byte(identifier, 3), Int32Byte(identifier, 4),
          high, high, high, high>>

\* The upper half and the last byte of a word, as numbers.
Hi16(word) == word[1]

LastByte(word) == word[2] % 256

\* word < test_ratio * 2**32 for a ratio n/d whose d divides 2**16 (floats
\* are such fractions): the right side is then a multiple of 2**16, so the
\* comparison is decided by the upper half.
LtRatioOfWordRange(word, test_ratio) ==
    Hi16(word) < test_ratio.n * (65536 \div test_ratio.d)

\* The identifiers the model meets.
MaxId == 6

\* crc32(np.int64(identifier)) of each of them, computed once.
Crc32OfId == [identifier \in 0..MaxId |-> crc32(int64_bytes(identifier))]

\* Mutant of is_id_in_test_set: the docstring's rule, on the last byte.
is_id_in_test_set_LastByte(identifier, test_ratio) ==
    LastByte(Crc32OfId[identifier]) * test_ratio.d <= 256 * test_ratio.n

\* is_id_in_test_set: crc32(np.int64(identifier)) < test_ratio * 2**32
is_id_in_test_set(identifier, test_ratio) ==
    LtRatioOfWordRange(Crc32OfId[identifier], test_ratio)

\* A table of the split: column names, index labels, and one tuple of
\* values per row.
Frame(columns, index, rows) ==
    [kind |-> "DataFrame", columns |-> columns, index |-> index, rows |-> rows]

RangeIndex(n) == [p \in 1..n |-> p - 1]

InColumns(frame, name) == \E j \in 1..Len(frame.columns) : frame.columns[j] = name

ColumnPosition(frame, name) ==
    CHOOSE j \in 1..Len(frame.columns) : frame.columns[j] = name

\* data[name]: the column's values, row by row.
ColumnValues(frame, name) ==
    [p \in 1..Len(frame.rows) |-> frame.rows[p][ColumnPosition(frame, name)]]

\* data.reset_index(inplace=True): the labels become the first column,
\* named "index", and the rows are labelled 0..n-1.
reset_index(frame) ==
    Frame(<<"index">> \o frame.columns,
          RangeIndex(Len(frame.rows)),
          [p \in 1..Len(frame.rows) |-> <<frame.index[p]>> \o frame.rows[p]])

Without(s, j) == SubSeq(s, 1, j - 1) \o SubSeq(s, j + 1, Len(s))

\* data.drop(name, axis=1, inplace=True)
drop_column(frame, name) ==
    LET j == ColumnPosition(frame, name)
    IN  Frame(Without(frame.columns, j), frame.index,
              [p \in 1..Len(frame.rows) |-> Without(frame.rows[p], j)])

RECURSIVE Positions(_, _, _)
Positions(mask, want, p) ==
    IF p > Len(mask) THEN <<>>
    ELSE (IF mask[p] = want THEN <<p>> ELSE <<>>) \o Positions(mask, want, p + 1)

\* data.loc[mask] for want = TRUE, data.loc[~mask] for want = FALSE
loc_mask(frame, mask, want) ==
    LET ps == Positions(mask, want, 1)
    IN  Frame(frame.columns,
              [k \in 1..Len(ps) |-> frame.index[ps[k]]],
              [k \in 1..Len(ps) |-> frame.rows[ps[k]]])

TrainTest(train, test) == [kind |-> "tuple", train |-> train, test |-> test]

OutOfUnitRange(test_ratio) ==
    RLt(test_ratio, Int2Rat(0)) \/ RLt(Int2Rat(1), test_ratio)

\* Mutant of split_data_with_id_hash: the two tables are returned the other
\* way round.
split_data_with_id_hash_Swapped(data, test_ratio, id_column) ==
    IF ~InColumns(data, id_column) /\ id_column # "index"
    THEN [data |-> data, result |-> Raise("ValueError", {})]
    ELSE LET withId == IF id_column = "index" /\ ~InColumns(data, "index")
                       THEN reset_index(data) ELSE data
         IN  IF OutOfUnitRange(test_ratio)
             THEN [data |-> withId, result |-> Raise("ValueError", {})]
             ELSE LET ids == ColumnValues(withId, id_column)
                      in_test_set ==
                          [p \in 1..Len(ids) |-> is_id_in_test_set(ids[p], test_ratio)]
                      after == IF id_column = "index"
                               THEN drop_column(withId, id_column) ELSE withId
                  IN  [data |-> after,
                       result |-> Return(TrainTest(loc_mask(after, in_test_set, TRUE),
                                                   loc_mask(after, in_test_set, FALSE)),
                                         {<<"ids", ids>>, <<"in_test_set", in_test_set>>})]

\* split_data_with_id_hash: data is the caller's table, which reset_index
\* and drop change in place; the record says what the table is afterwards
\* and what the call returned or raised.
split_data_with_id_hash(data, test_ratio, id_column) ==
    IF ~InColumns(data, id_column) /\ id_column # "index"
    THEN [data |-> data, result |-> Raise("ValueError", {})]
    ELSE LET withId == IF id_column = "index" /\ ~InColumns(data, "index")
                       THEN reset_index(data) ELSE data
         IN  IF OutOfUnitRange(test_ratio)
             THEN [data |-> withId, result |-> Raise("ValueError", {})]
             ELSE LET ids == ColumnValues(withId, id_column)
                      in_test_set ==
                          [p \in 1..Len(ids) |-> is_id_in_test_set(ids[p], test_ratio)]
                      after == IF id_column = "index"
                               THEN drop_column(withId, id_column) ELSE withId
                  IN  [data |-> after,
                       result |-> Return(TrainTest(loc_mask(after, in_test_set, FALSE),
                                                   loc_mask(after, in_test_set, TRUE)),
                                         {<<"ids", ids>>, <<"in_test_set", in_test_set>>})]


\* How many rows of the Boston table the model keeps.
BostonRows == MaxId

\* What pd.read_csv gives for the Boston CSV: a default index and, of the
\* columns, one feature and the target.
BostonFrame ==
    Frame(<<"CRIM", "TARGET">>, RangeIndex(BostonRows),
          [p \in 1..BostonRows |-> <<p, 10 + p>>])

\* The enumerated ratios: both sides outside [0, 1], the two ends, and
\* inside it two pairs of which the first formats to one two-decimal text.
TestRatios ==
    {Rat(-1, 4), Rat(0, 1), Rat(45, 256), Rat(23, 128), Rat(1, 4), Rat(3, 4),
     Rat(1, 1), Rat(5, 4)}

\* round-half-even of 100 * ratio, for a ratio that is not negative
Hundredths(ratio) ==
    LET q == (100 * ratio.n) \div ratio.d
        twice == 2 * ((100 * ratio.n) % ratio.d)
    IN  IF twice > ratio.d THEN q + 1
        ELSE IF twice = ratio.d THEN q + (q % 2)
        ELSE q

\* f"{ratio:.2f}"
Format2f(ratio) ==
    LET h == Hundredths(ratio)
    IN  ToString(h \div 100) \o "." \o ToString((h % 100) \div 10) \o ToString(h % 10)

TrainCsvPath(train_ratio) ==
    "datasets/boston_housing/boston_housing_train-" \o Format2f(train_ratio) \o ".csv"

TestCsvPath(test_ratio) ==
    "datasets/boston_housing/boston_housing_test-" \o Format2f(test_ratio) \o ".csv"

\* frame.to_csv(path, index=False): the columns and the rows, no labels.
to_csv(frame) == ToString(<<frame.columns, frame.rows>>)

\* The table load_boston_housing_data returned, as a table of the split.
FrameOf(table) ==
    CASE table.parsed_from = BostonCsvFromRemote -> BostonFrame

\* Mutant of load_boston_housing_train_test: the full table is loaded before
\* the ratio is checked.
load_boston_housing_train_test_LoadsFirst(fs, requests, test_ratio) ==
    LET loaded == load_boston_housing_data(fs, requests)
    IN  IF OutOfUnitRange(test_ratio)
        THEN Outcome(World(loaded.files, loaded.remote), Raise("ValueError", {}))
        ELSE LET train_csv_path == TrainCsvPath(RSub(Int2Rat(1), test_ratio))
                 test_csv_path == TestCsvPath(test_ratio)
                 split == split_data_with_id_hash(FrameOf(loaded.result.value),
                                                  test_ratio, "index")
                 w == IF ~is_file(fs, train_csv_path) \/ ~is_file(fs, test_csv_path)
                      THEN World([loaded.files EXCEPT
                                     ![train_csv_path] = to_csv(split.result.value.train),
                                     ![test_csv_path] = to_csv(split.result.value.test)],
                                 loaded.remote)
                      ELSE World(loaded.files, loaded.remote)
             IN  Outcome(w, Return(TrainTest(read_csv(w.files, train_csv_path),
                                             read_csv(w.files, test_csv_path)), {}))

\* load_boston_housing_train_test: the ratio is checked first; the two files
\* are written when either is not a file; the pair read from them is
\* returned.
load_boston_housing_train_test(fs, requests, test_ratio) ==
    IF OutOfUnitRange(test_ratio)
    THEN Outcome(World(fs, requests), Raise("ValueError", {}))
    ELSE LET train_ratio == RSub(Int2Rat(1), test_ratio)
             train_csv_path == TrainCsvPath(train_ratio)
             test_csv_path == TestCsvPath(test_ratio)
             w == IF ~is_file(fs, train_csv_path) \/ ~is_file(fs, test_csv_path)
                  THEN LET loaded == load_boston_housing_data(fs, requests)
                           split == split_data_with_id_hash(
                                        FrameOf(loaded.result.value), test_ratio, "index")
                       IN  World([loaded.files EXCEPT
                                     ![train_csv_path] = to_csv(split.result.value.train),
                                     ![test_csv_path] = to_csv(split.result.value.test)],
                                 loaded.remote)
                  ELSE World(fs, requests)
         IN  Outcome(w, Return(TrainTest(read_csv(w.files, train_csv_path),
                                         read_csv(w.files, test_csv_path)), {}))

ValidRatios == {r \in TestRatios : ~OutOfUnitRange(r)}

\* The files of the split.
SplitPaths ==
    {BostonCsv} \cup {TrainCsvPath(RSub(Int2Rat(1), r)) : r \in ValidRatios}
                \cup {TestCsvPath(r) : r \in ValidRatios}

\* The identifiers and index labels of the enumerated tables.
RowLabels == {0, 1, 2, 5}

IdColumns == {"index", "id", "no_such_column"}

Injective(s) == \A p, q \in 1..Len(s) : s[p] = s[q] => p = q

LabelSeqs == UNION {[1..n -> RowLabels] : n \in 0..MaxRows}

\* The enumerated tables: one feature column under any labels that differ,
\* and a default index with an "id" or an "index" column before the feature.
SplitFrames ==
    {Frame(<<"CRIM">>, index, [p \in 1..Len(index) |-> <<10 + p>>]) :
        index \in {s \in LabelSeqs : Injective(s)}}
    \cup
    {Frame(<<name, "CRIM">>, RangeIndex(Len(ids)),
           [p \in 1..Len(ids) |-> <<ids[p], 10 + p>>]) :
        name \in {"id", "index"}, ids \in LabelSeqs}

\* ------------------------------------------------------------------- state
VARIABLES
    data,     \* the caller's table
    call,     \* the call made: operation and arguments
    result,   \* what the call returned or raised
    files,    \* the file system: what each path holds
    remote,   \* the number of requests made to the remote source
    memo,     \* the results st.cache_data has stored for load_data
    resources,\* the results st.cache_resource has stored for load_model
    session   \* st.session_state: the keys written and what they hold

vars == <<data, call, result, files, remote, memo, resources, session>>

\* Everything the outlier operations do not touch.
loaderVars == <<files, remote, memo, resources, session>>

NoSession == [k \in {} |-> NoEntry]

NoCall == [op |-> "none"]

Init ==
    /\ data \in Tables
    /\ call = NoCall
    /\ result = Raise("none", {})
    /\ files = [p \in Paths |-> Absent]
    /\ remote = 0
    /\ memo = EmptyMemo
    /\ resources = EmptyResources
    /\ session = NoSession

Call_validate_column ==
    /\ call.op = "none"
    /\ \E column \in Selectors :
          /\ call' = [op |-> "validate_column", column |-> column]
          /\ result' = LET v == validate_column(data, column)
                       IN  IF v.status # "ok" THEN Raise(v.status, {})
                           ELSE Return(NumArray(v.arr.shape, v.arr.flat), {})
    /\ UNCHANGED <<data, loaderVars>>

Call_remove_outliers_z_score ==
    /\ call.op = "none"
    /\ \E column \in Selectors, threshold \in Thresholds :
          /\ call' = [op |-> "remove_outliers_z_score", column |-> column,
                      threshold |-> threshold]
          /\ result' = remove_outliers_z_score(data, column, threshold)
    /\ UNCHANGED <<data, loaderVars>>

Call_remove_outliers_tukey ==
    /\ call.op = "none"
    /\ \E column \in Selectors, k \in TukeyFactors :
          /\ call' = [op |-> "remove_outliers_tukey", column |-> column, k |-> k]
          /\ result' = remove_outliers_tukey(data, column, k)
    /\ UNCHANGED <<data, loaderVars>>

Call_remove_outliers_robust_z_score ==
    /\ call.op = "none"
    /\ \E column \in Selectors, threshold \in Thresholds, outlier_type \in Sides :
          /\ call' = [op |-> "remove_outliers_robust_z_score", column |-> column,
                      threshold |-> threshold, outlier_type |-> outlier_type,
                      calibrated |-> FALSE, percentile |-> NaN]
          /\ result' = remove_outliers_robust_z_score(data, column, threshold, outlier_type)
    /\ UNCHANGED <<data, loaderVars>>

Call_remove_outliers_percentile ==
    /\ call.op = "none"
    /\ \E column \in Selectors, percentile \in Percentiles, outlier_type \in Sides :
          /\ call' = [op |-> "remove_outliers_percentile", column |-> column,
                      percentile |-> percentile, outlier_type |-> outlier_type]
          /\ result' = remove_outliers_percentile(data, column, percentile, outlier_type)
    /\ UNCHANGED <<data, loaderVars>>

\* The use remove_outliers_percentile documents for its result: the returned
\* threshold is passed to remove_outliers_robust_z_score on the same data,
\* column and side.
Call_robust_z_score_with_percentile_threshold ==
    /\ call.op = "remove_outliers_percentile"
    /\ result.status = "ok"
    /\ call' = [op |-> "remove_outliers_robust_z_score", column |-> call.column,
                threshold |-> result.value, outlier_type |-> call.outlier_type,
                calibrated |-> TRUE, percentile |-> call.percentile]
    /\ result' = remove_outliers_robust_z_score(data, call.column, result.value,
                                                call.outlier_type)
    /\ UNCHANGED <<data, loaderVars>>

Call_remove_outliers_truncated_mean ==
    /\ call.op = "none"
    /\ \E column \in Selectors, percentage \in Percentages :
          /\ call' = [op |-> "remove_outliers_truncated_mean", column |-> column,
                      percentage |-> percentage]
          /\ result' = remove_outliers_truncated_mean(data, column, percentage)
    /\ UNCHANGED <<data, loaderVars>>

Call_winsorize_data ==
    /\ call.op = "none"
    /\ \E column \in Selectors, limits \in Limits :
          /\ call' = [op |-> "winsorize_data", column |-> column, limits |-> limits]
          /\ result' = winsorize_data(data, column, limits)
          /\ data' = InputAfterWinsorize(data, column, limits)
    /\ UNCHANGED loaderVars

Next ==
    \/ Call_validate_column
    \/ Call_remove_outliers_z_score
    \/ Call_remove_outliers_tukey
    \/ Call_remove_outliers_robust_z_score
    \/ Call_remove_outliers_percentile
    \/ Call_robust_z_score_with_percentile_threshold
    \/ Call_remove_outliers_truncated_mean
    \/ Call_winsorize_data

Spec == Init /\ [][Next]_vars

\* --------------------------------------------- a call and the same call again
\* Every call of the six operations on the enumerated arguments.
Calls ==
    {[op |-> "remove_outliers_z_score", column |-> c, threshold |-> t] :
        c \in Selectors, t \in Thresholds}
    \cup {[op |-> "remove_outliers_tukey", column |-> c, k |-> k] :
        c \in Selectors, k \in TukeyFactors}
    \cup {[op |-> "remove_outliers_robust_z_score", column |-> c, threshold |-> t,
           outlier_type |-> o, calibrated |-> FALSE, percentile |-> NaN] :
        c \in Selectors, t \in Thresholds, o \in Sides}
    \cup {[op |-> "remove_outliers_percentile", column |-> c, percentile |-> p,
           outlier_type |-> o] :
        c \in Selectors, p \in Percentiles, o \in Sides}
    \cup {[op |-> "remove_outliers_truncated_mean", column |-> c, percentage |-> p] :
        c \in Selectors, p \in Percentages}
    \cup {[op |-> "winsorize_data", column |-> c, limits |-> l] :
        c \in Selectors, l \in Limits}

\* The call c made on the table d.
Invoke(c, d) ==
    IF c.op = "remove_outliers_z_score"
    THEN remove_outliers_z_score(d, c.column, c.threshold)
    ELSE IF c.op = "remove_outliers_tukey"
    THEN remove_outliers_tukey(d, c.column, c.k)
    ELSE IF c.op = "remove_outliers_robust_z_score"
    THEN remove_outliers_robust_z_score(d, c.column, c.threshold, c.outlier_type)
    ELSE IF c.op = "remove_outliers_percentile"
    THEN remove_outliers_percentile(d, c.column, c.percentile, c.outlier_type)
    ELSE IF c.op = "remove_outliers_truncated_mean"
    THEN remove_outliers_truncated_mean(d, c.column, c.percentage)
    ELSE winsorize_data(d, c.column, c.limits)

\* The caller's table after the call c.
InputAfter(c, d) ==
    IF c.op = "winsorize_data" THEN InputAfterWinsorize(d, c.column, c.limits) ELSE d

\* One of the six operations is called; then the same operation is called
\* again with the same arguments, on the caller's table as the first call
\* left it.
Call_then_again ==
    /\ call.op # "again"
    /\ \E c \in IF call.op = "none" THEN Calls ELSE {call} :
          /\ call' = IF call.op = "none" THEN c
                     ELSE [op |-> "again", first |-> call, returned |-> result]
          /\ result' = Invoke(c, data)
          /\ data' = InputAfter(c, data)
    /\ UNCHANGED loaderVars

SpecAgain == Init /\ [][Call_then_again]_vars

\* ------------------------------------------ the loaders as a state machine
\* No table is handed to the outlier operations while the loaders run.
NoData == NDArray(<<1>>, <<0>>)

InitLoaders ==
    /\ data = NoData
    /\ call = NoCall
    /\ result = Raise("none", {})
    /\ files \in FileSystems
    /\ remote = 0
    /\ memo = EmptyMemo
    /\ resources = EmptyResources
    /\ session = NoSession

Call_load_data ==
    \E dataset \in DatasetArgs :
        LET out == load_data(files, remote, memo, dataset)
        IN  /\ call' = [op |-> "load_data", dataset |-> dataset,
                        body_ran |-> out.body_ran]
            /\ result' = out.result
            /\ files' = out.files
            /\ remote' = out.remote
            /\ memo' = out.memo
            /\ UNCHANGED <<data, resources, session>>

Call_load_model ==
    \E model_path \in ModelArgs :
        LET out == load_model(files, resources, model_path)
        IN  /\ call' = [op |-> "load_model", model_path |-> model_path,
                        body_ran |-> out.body_ran]
            /\ result' = out.result
            /\ resources' = out.resources
            /\ UNCHANGED <<data, files, remote, memo, session>>

Call_load_full_dataset ==
    \E dataset_name \in known_datasets \cup {"non_existent_dataset"} :
        LET out == load_full_dataset(files, remote, dataset_name)
        IN  /\ call' = [op |-> "load_full_dataset", dataset |-> dataset_name]
            /\ result' = out.result
            /\ files' = out.files
            /\ remote' = out.remote
            /\ UNCHANGED <<data, memo, resources, session>>

Call_load_boston_housing_data ==
    LET out == load_boston_housing_data(files, remote)
    IN  /\ call' = [op |-> "load_boston_housing_data"]
        /\ result' = out.result
        /\ files' = out.files
        /\ remote' = out.remote
        /\ UNCHANGED <<data, memo, resources, session>>

Call_load_california_housing_data ==
    LET out == load_california_housing_data(files, remote)
    IN  /\ call' = [op |-> "load_california_housing_data"]
        /\ result' = out.result
        /\ files' = out.files
        /\ remote' = out.remote
        /\ UNCHANGED <<data, memo, resources, session>>

NextLoaders ==
    \/ Call_load_data
    \/ Call_load_model
    \/ Call_load_full_dataset
    \/ Call_load_boston_housing_data
    \/ Call_load_california_housing_data

SpecLoaders == InitLoaders /\ [][NextLoaders]_vars

TypeOK == result.status \in {"none", "ok", "OutlierValidationException", "KeyError",
                             "IndexError", "ValueError", "FileNotFoundError"}




\* ------------------------------------------------ the split, as a machine
\* data is the caller's table: each call of split_data_with_id_hash is
\* given it, and it is what the call left of it.
InitSplit ==
    /\ data \in SplitFrames
    /\ call = NoCall
    /\ result = Raise("none", {})
    /\ files = [p \in Paths |-> Absent]
    /\ remote = 0
    /\ memo = EmptyMemo
    /\ resources = EmptyResources
    /\ session = NoSession

Call_is_id_in_test_set ==
    \E identifier \in RowLabels, test_ratio \in TestRatios :
        /\ call' = [op |-> "is_id_in_test_set", identifier |-> identifier,
                    test_ratio |-> test_ratio]
        /\ result' = Return(is_id_in_test_set(identifier, test_ratio), {})
        /\ UNCHANGED <<data, loaderVars>>

Call_split_data_with_id_hash ==
    \E test_ratio \in TestRatios, id_column \in IdColumns :
        LET out == split_data_with_id_hash(data, test_ratio, id_column)
        IN  /\ call' = [op |-> "split_data_with_id_hash", data |-> data,
                        test_ratio |-> test_ratio, id_column |-> id_column]
            /\ result' = out.result
            /\ data' = out.data
            /\ UNCHANGED loaderVars

NextSplit ==
    \/ Call_is_id_in_test_set
    \/ Call_split_data_with_id_hash

SpecSplit == InitSplit /\ [][NextSplit]_vars

\* --------------------------------------- the train and test files' loader
\* The Boston CSV may be there from an earlier download; no split has been
\* written.
InitTrainTest ==
    /\ data = NoData
    /\ call = NoCall
    /\ result = Raise("none", {})
    /\ files \in {[p \in SplitPaths |-> Absent],
                  [p \in SplitPaths |-> IF p = BostonCsv THEN BostonCsvFromRemote
                                        ELSE Absent]}
    /\ remote = 0
    /\ memo = EmptyMemo
    /\ resources = EmptyResources
    /\ session = NoSession

\* The call record keeps the files and the request count the call found.
Call_load_boston_housing_train_test ==
    \E test_ratio \in TestRatios :
        LET out == load_boston_housing_train_test(files, remote, test_ratio)
        IN  /\ call' = [op |-> "load_boston_housing_train_test",
                        test_ratio |-> test_ratio, files |-> files, remote |-> remote]
            /\ result' = out.result
            /\ files' = out.files
            /\ remote' = out.remote
            /\ UNCHANGED <<data, memo, resources, session>>

SpecTrainTest == InitTrainTest /\ [][Call_load_boston_housing_train_test]_vars

\* ------------------------------------------------------------ the web app
\* How many invocations of a function the model describes.
MaxInvocations == 3

\* What one invocation of the wrapped function can do: return None or a
\* value, raise AttributeError, raise another Exception, or raise something
\* that is no Exception.
FuncOutcomes ==
    {Return(NoneValue, {}), Return(Scalar(Int2Rat(1)), {}),
     Raise("AttributeError", {}), Raise("ValueError", {}),
     Raise("KeyboardInterrupt", {})}

\* A function is what its successive invocations do.
Funcs == [1..MaxInvocations -> FuncOutcomes]

IsException(exc) == exc \in {"AttributeError", "ValueError"}

\* Mutant of rerun_on_attribute_error: any Exception of the first invocation
\* leads to the second one.
rerun_on_attribute_error_AnyException(func) ==
    IF func[1].status = "ok"
    THEN [result |-> func[1], invocations |-> 1, printed |-> <<>>]
    ELSE IF IsException(func[1].status)
    THEN [result |-> func[2], invocations |-> 2,
          printed |-> <<"AttributeError caught. Rerunning the function...">>]
    ELSE [result |-> func[1], invocations |-> 1, printed |-> <<>>]

\* rerun_on_attribute_error: the try returns what func returns; the handler
\* of AttributeError prints and returns what func returns then; the handler
\* of Exception prints and raises again; anything else passes through.
rerun_on_attribute_error(func) ==
    IF func[1].status = "ok"
    THEN [result |-> func[1], invocations |-> 1, printed |-> <<>>]
    ELSE IF func[1].status = "AttributeError"
    THEN [result |-> func[2], invocations |-> 2,
          printed |-> <<"AttributeError caught. Rerunning the function...">>]
    ELSE IF IsException(func[1].status)
    THEN [result |-> func[1], invocations |-> 1,
          printed |-> <<"An exception of type " \o func[1].status \o " occurred.">>]
    ELSE [result |-> func[1], invocations |-> 1, printed |-> <<>>]

Call_rerun_on_attribute_error ==
    \E func \in Funcs :
        LET out == rerun_on_attribute_error(func)
        IN  /\ call' = [op |-> "rerun_on_attribute_error", func |-> func,
                        invocations |-> out.invocations, printed |-> out.printed]
            /\ result' = out.result
            /\ UNCHANGED <<data, loaderVars>>

\* One statement of the app script that touches st.session_state or a
\* memoized loader, with the place it stands at.
Write(line, key) == [do |-> "write", line |-> line, key |-> key]

Read(line, key) == [do |-> "read", line |-> line, key |-> key]

Load(line, loader) == [do |-> loader, line |-> line, key |-> ""]

\* The statements of one run of app.py, in the order the run reaches them:
\* set_session_state, the dataset summary, the correlation sections, the
\* SHAP sections.
AppScript ==
    <<Write("app.py:83", "dataset"),
      Load("app.py:85", "load_model"),
      Load("app.py:86", "load_data"),
      Write("app.py:94", "model"),
      Write("app.py:95", "df"),
      Write("app.py:96", "X"),
      Write("app.py:97", "target"),
      Write("app.py:98", "explainer"),
      Write("app.py:99", "shap_values"),
      Write("app.py:100", "shap_explanation"),
      Read("app.py:271", "df"),
      Read("app.py:272", "df"),
      Read("app.py:276", "df"),
      Read("app.py:282", "df"),
      Read("app.py:289", "df_masked"),
      Write("eda_correlations.py:47", "pearson_corr"),
      Read("app.py:294", "df_masked"),
      Write("eda_correlations.py:273", "pearson_corr"),
      Write("eda_correlations.py:274", "kendall_corr"),
      Write("eda_correlations.py:275", "spearman_corr"),
      Read("eda_correlations.py:288", "pearson_corr"),
      Read("eda_correlations.py:289", "kendall_corr"),
      Read("eda_correlations.py:290", "spearman_corr"),
      Read("app.py:295", "df_masked"),
      Read("shap.py:151", "explainer"),
      Read("shap.py:152", "shap_values"),
      Read("shap.py:153", "X"),
      Read("app.py:336", "X"),
      Read("app.py:337", "explainer"),
      Read("app.py:338", "shap_values"),
      Read("app.py:339", "shap_explanation"),
      Read("app.py:346", "X"),
      Read("app.py:346", "shap_values")>>

\* st.session_state[key] = value
Put(state, key, value) ==
    [k \in DOMAIN state \cup {key} |-> IF k = key THEN value ELSE state[k]]

\* What a run has come to: the world, the session state, the keys this run
\* has written, the reads it has made, and ok or the exception that ended it.
RunState(fs, requests, stored, models, state) ==
    [files |-> fs, remote |-> requests, memo |-> stored, resources |-> models,
     session |-> state, written |-> {}, reads |-> <<>>,
     result |-> Return(NoneValue, {})]

\* One statement. A read of a key that session state does not hold raises
\* KeyError; a loader that raises ends the run with its exception.
Statement(env, st) ==
    CASE st.do = "write" ->
            [env EXCEPT !.session = Put(@, st.key, [kind |-> "value", written_at |-> st.line]),
                        !.written = @ \cup {st.key}]
      [] st.do = "read" ->
            [env EXCEPT !.reads = Append(@, [key |-> st.key, line |-> st.line,
                                             written_before |-> st.key \in env.written]),
                        !.result = IF st.key \in DOMAIN env.session THEN @
                                   ELSE Raise("KeyError", {})]
      [] st.do = "load_model" ->
            LET out == load_model(env.files, env.resources, ModelPkl)
            IN  [env EXCEPT !.resources = out.resources,
                            !.result = IF out.result.status = "ok" THEN @ ELSE out.result]
      [] st.do = "load_data" ->
            LET out == load_data(env.files, env.remote, env.memo, "boston_housing")
            IN  [env EXCEPT !.files = out.files, !.remote = out.remote,
                            !.memo = out.memo,
                            !.result = IF out.result.status = "ok" THEN @ ELSE out.result]

\* The script from statement i on, until it ends or a statement raises.
RECURSIVE RunScript(_, _, _)
RunScript(env, script, i) ==
    IF i > Len(script) \/ env.result.status # "ok" THEN env
    ELSE RunScript(Statement(env, script[i]), script, i + 1)

\* One run of app.py
AppRun(fs, requests, stored, models, state) ==
    RunScript(RunState(fs, requests, stored, models, state), AppScript, 1)

\* A run of the script: on a widget event Streamlit runs it again, with the
\* session state and the stores the earlier runs left.
Run_app_script ==
    LET out == AppRun(files, remote, memo, resources, session)
    IN  /\ call' = [op |-> "app.py", reads |-> out.reads, written |-> out.written]
        /\ result' = out.result
        /\ files' = out.files
        /\ remote' = out.remote
        /\ memo' = out.memo
        /\ resources' = out.resources
        /\ session' = out.session
        /\ UNCHANGED data

\* The slider of individual_tree_shap_plots: min_value and value.
SliderMin == 1

SliderDefault == 100

\* The enumerated numbers of rows of the dataset.
DatasetSizes == {1, 99, 100, 101, 506}

\* What the user does with the slider: leaves it, or moves it to an end or
\* to the last row.
SliderPicks == {"default", "min", "max", "last row"}

Picked(pick, max_value) ==
    CASE pick = "default" -> SliderDefault
      [] pick = "min" -> SliderMin
      [] pick = "max" -> max_value
      [] pick = "last row" -> max_value - 1

\* st.slider: an exception when min_value is above max_value or value is
\* outside the two; otherwise the value the widget is at.
st_slider(min_value, max_value, value, picked) ==
    IF min_value > max_value \/ value < min_value \/ value > max_value
    THEN Raise("StreamlitAPIException", {})
    ELSE Return(picked, {})

\* array[position, :] and DataFrame.iloc[position, :] on n rows
RowAt(n, position) ==
    IF position \in 0..(n - 1) THEN Return(position, {}) ELSE Raise("IndexError", {})

\* individual_tree_shap_plots on a dataset of n rows: the slider, the force
\* plot of the row the slider is at, then the waterfall plot under
\* rerun_on_attribute_error; waterfall is how often plot_waterfall ran.
individual_tree_shap_plots(n, picked, plot_waterfall) ==
    LET max_value == n
        slider == st_slider(SliderMin, max_value, SliderDefault, picked)
        row == RowAt(n, slider.value)
        plot == rerun_on_attribute_error(plot_waterfall)
    IN  IF slider.status # "ok"
        THEN [result |-> slider, min_value |-> SliderMin, max_value |-> max_value,
              value |-> SliderDefault, slider_value |-> NoneValue, waterfall |-> 0]
        ELSE IF row.status # "ok"
        THEN [result |-> row, min_value |-> SliderMin, max_value |-> max_value,
              value |-> SliderDefault, slider_value |-> slider.value, waterfall |-> 0]
        ELSE [result |-> plot.result, min_value |-> SliderMin, max_value |-> max_value,
              value |-> SliderDefault, slider_value |-> slider.value,
              waterfall |-> plot.invocations]

\* plot_waterfall is taken to do one thing when first invoked and one thing
\* whenever invoked again.
Call_individual_tree_shap_plots ==
    \E n \in DatasetSizes, pick \in SliderPicks, first \in FuncOutcomes, again \in FuncOutcomes :
        LET picked == Picked(pick, n)
            plot_waterfall == [i \in 1..MaxInvocations |-> IF i = 1 THEN first ELSE again]
            out == individual_tree_shap_plots(n, picked, plot_waterfall)
        IN  /\ picked \in SliderMin..n
            /\ call' = [op |-> "individual_tree_shap_plots", n |-> n,
                        min_value |-> out.min_value, max_value |-> out.max_value,
                        value |-> out.value, slider_value |-> out.slider_value,
                        waterfall |-> out.waterfall]
            /\ result' = out.result
            /\ UNCHANGED <<data, loaderVars>>

\* The figures that functions are decorated for, and the tables the
\* decorated functions are given.
FigNames == {"box_plots", "pair_plot"}

FigDatasets == {"df", "df without outliers"}

FigPath(dataset_name, fig_name) == "assets/" \o dataset_name \o "/" \o fig_name \o ".pkl"

HeatMapPng(fig_name) == "assets/" \o fig_name \o ".png"

FigurePaths == {FigPath("boston_housing", n) : n \in FigNames} \cup {HeatMapPng("heat_map")}

Figure(fig_name, dataset) == [kind |-> "figure", name |-> fig_name, of |-> dataset]

Figures == {Figure(n, d) : n \in FigNames, d \in FigDatasets}

\* pickle.dump and pickle.load of a figure or of None
pickle_dump(object) == "pickle of " \o ToString(object)

pickle_load(content) ==
    IF content = pickle_dump(NoneValue) THEN NoneValue
    ELSE CHOOSE fig \in Figures : pickle_dump(fig) = content

\* What the decorated function does when called: it returns a figure of the
\* table, returns None, or raises.
GeneratorOutcomes == {"figure", "None", "raises"}

\* What the wrapper shows: the figure, or the error text when it is None.
Shown(fig) ==
    IF fig # NoneValue THEN [by |-> "st.pyplot", fig |-> fig, text |-> ""]
    ELSE [by |-> "st.error", fig |-> fig, text |-> "Error: Figure not generated."]

NothingShown == [by |-> "nothing", fig |-> NoneValue, text |-> ""]

\* Mutant of figure_wrapper: the generated figure is shown and not saved.
figure_wrapper_NeverSaves(fs, fig_name, dataset_name, outcome, dataset) ==
    LET saved_fig_path == FigPath(dataset_name, fig_name)
        fig == IF outcome = "figure" THEN Figure(fig_name, dataset) ELSE NoneValue
    IN  IF is_file(fs, saved_fig_path)
        THEN [files |-> fs, result |-> Return(NoneValue, {}), generator_ran |-> FALSE,
              shown |-> Shown(pickle_load(fs[saved_fig_path]))]
        ELSE IF outcome = "raises"
        THEN [files |-> fs, result |-> Raise("ValueError", {}), generator_ran |-> TRUE,
              shown |-> NothingShown]
        ELSE [files |-> fs, result |-> Return(NoneValue, {}), generator_ran |-> TRUE,
              shown |-> Shown(fig)]

\* figure_wrapper(fig_name, dataset_name)(func)(dataset): the saved figure
\* when its file exists; otherwise what func(dataset) returns, pickled to the
\* file. An exception of func leaves the wrapper before the file is opened.
figure_wrapper(fs, fig_name, dataset_name, outcome, dataset) ==
    LET saved_fig_path == FigPath(dataset_name, fig_name)
        fig == IF outcome = "figure" THEN Figure(fig_name, dataset) ELSE NoneValue
    IN  IF is_file(fs, saved_fig_path)
        THEN [files |-> fs, result |-> Return(NoneValue, {}), generator_ran |-> FALSE,
              shown |-> Shown(pickle_load(fs[saved_fig_path]))]
        ELSE IF outcome = "raises"
        THEN [files |-> fs, result |-> Raise("ValueError", {}), generator_ran |-> TRUE,
              shown |-> NothingShown]
        ELSE [files |-> [fs EXCEPT ![saved_fig_path] = pickle_dump(fig)],
              result |-> Return(NoneValue, {}), generator_ran |-> TRUE,
              shown |-> Shown(fig)]

\* The correlation tables generate_heat_map is given.
Correlations == {"pearson_corr of df", "pearson_corr of df without outliers"}

HeatMapOf(pearson_corr) == "heat map of " \o pearson_corr

\* generate_heat_map: the saved image when the file exists; otherwise the
\* heat map of the table, saved to the file and shown.
generate_heat_map(fs, pearson_corr, fig_name) ==
    LET image_file == HeatMapPng(fig_name)
    IN  IF is_file(fs, image_file)
        THEN [files |-> fs, result |-> Return(NoneValue, {}), generator_ran |-> FALSE,
              shown |-> [by |-> "st.image", fig |-> fs[image_file], text |-> ""]]
        ELSE [files |-> [fs EXCEPT ![image_file] = HeatMapOf(pearson_corr)],
              result |-> Return(NoneValue, {}), generator_ran |-> TRUE,
              shown |-> [by |-> "st.pyplot", fig |-> HeatMapOf(pearson_corr), text |-> ""]]

\* The files of the app: the model and the Boston CSV may or may not be
\* there.
AppFileSystems ==
    {[p \in Paths |-> IF p \in present THEN KeptCsv(p) ELSE Absent] :
        present \in SUBSET {ModelPkl, BostonCsv}}

InitApp ==
    /\ data = NoData
    /\ call = NoCall
    /\ result = Raise("none", {})
    /\ files \in AppFileSystems
    /\ remote = 0
    /\ memo = EmptyMemo
    /\ resources = EmptyResources
    /\ session = NoSession

NextApp ==
    \/ Call_rerun_on_attribute_error
    \/ Run_app_script
    \/ Call_individual_tree_shap_plots

SpecApp == InitApp /\ [][NextApp]_vars

\* ------------------------------------------------- the figure file cache
\* No figure has been pickled; the heat map's image may be there.
InitFigures ==
    /\ data = NoData
    /\ call = NoCall
    /\ result = Raise("none", {})
    /\ files \in {[p \in FigurePaths |-> IF p \in present THEN KeptCsv(p) ELSE Absent] :
                     present \in SUBSET {HeatMapPng("heat_map")}}
    /\ remote = 0
    /\ memo = EmptyMemo
    /\ resources = EmptyResources
    /\ session = NoSession

Call_figure_wrapper ==
    \E fig_name \in FigNames, outcome \in GeneratorOutcomes, dataset \in FigDatasets :
        LET out == figure_wrapper(files, fig_name, "boston_housing", outcome, dataset)
        IN  /\ call' = [op |-> "figure_wrapper", path |-> FigPath("boston_housing", fig_name),
                        dataset |-> dataset, generator_ran |-> out.generator_ran,
                        outcome |-> IF out.generator_ran THEN outcome ELSE "not run",
                        shown |-> out.shown]
            /\ result' = out.result
            /\ files' = out.files
            /\ UNCHANGED <<data, remote, memo, resources, session>>

Call_generate_heat_map ==
    \E pearson_corr \in Correlations :
        LET out == generate_heat_map(files, pearson_corr, "heat_map")
        IN  /\ call' = [op |-> "generate_heat_map", path |-> HeatMapPng("heat_map"),
                        dataset |-> pearson_corr, generator_ran |-> out.generator_ran,
                        outcome |-> IF out.generator_ran THEN "figure" ELSE "not run",
                        shown |-> out.shown]
            /\ result' = out.result
            /\ files' = out.files
            /\ UNCHANGED <<data, remote, memo, resources, session>>

NextFigures ==
    \/ Call_figure_wrapper
    \/ Call_generate_heat_map

SpecFigures == InitFigures /\ [][NextFigures]_vars

\* ================================================================== claims
SixOperations ==
    {"remove_outliers_z_score", "remove_outliers_tukey",
     "remove_outliers_robust_z_score", "remove_outliers_percentile",
     "remove_outliers_truncated_mean", "winsorize_data"}

\* The selector's type does not match the table's addressing scheme.
WrongSelectorType ==
    \/ data.kind = "DataFrame" /\ call.column.type = "int"
    \/ data.kind = "ndarray" /\ call.column.type = "str"

\* C1: each of the six operations, called with a DataFrame and an int selector
\* or with an ndarray and a str selector, raises OutlierValidationException
\* before any statistic is computed and returns nothing.
C1_InvalidSelectorFails ==
    (call.op \in SixOperations /\ WrongSelectorType)
        => /\ result.status = "OutlierValidationException"
           /\ result.value = NoneValue
           /\ result.computed = {}

C1_Witness ==
    /\ call.op = "winsorize_data"
    /\ data.kind = "DataFrame"
    /\ call.column.type = "int"
    /\ result.status = "OutlierValidationException"

\* Cell (r, c) of the caller's 2-D table, both 1-based.
CellAt(r, c) == Int2Rat(data.flat[(r - 1) * data.shape[2] + c])

IsColumn(v, c) ==
    /\ v.shape = <<data.shape[1]>>
    /\ \A r \in 1..data.shape[1] : v.flat[r] = CellAt(r, c)

HoldsAllValues(v) ==
    /\ Len(v.flat) = Len(data.flat)
    /\ \A j \in 1..Len(data.flat) : v.flat[j] = Int2Rat(data.flat[j])

\* C2 as claimed: every accepted call of validate_column returns a 1-D
\* sequence; a DataFrame with None gives all values flattened into one.
C2_AlwaysOneDimensional ==
    (call.op = "validate_column" /\ result.status = "ok")
        => /\ Len(result.value.shape) = 1
           /\ (data.kind = "DataFrame" /\ call.column.type = "NoneType")
                 => (result.value.shape = <<Len(data.flat)>> /\ HoldsAllValues(result.value))

\* C2 as amended: a DataFrame with a column name, and a 2-D ndarray with a
\* column index, give that column as a 1-D sequence; an ndarray with None
\* gives the array itself, of its own shape; a DataFrame with None gives all
\* values as a 2-D rows x columns array, not flattened.
C2_ResolvedShape ==
    (call.op = "validate_column" /\ result.status = "ok")
        => LET v == result.value
               sel == call.column
           IN  /\ (data.kind = "DataFrame" /\ sel.type = "str")
                     => \E c \in 1..Len(data.columns) :
                           data.columns[c] = sel.name /\ IsColumn(v, c)
               /\ (data.kind = "ndarray" /\ sel.type = "int")
                     => IsColumn(v, sel.index + 1)
               /\ (data.kind = "ndarray" /\ sel.type = "NoneType")
                     => (v.shape = data.shape /\ HoldsAllValues(v))
               /\ (data.kind = "DataFrame" /\ sel.type = "NoneType")
                     => (v.shape = <<data.shape[1], Len(data.columns)>>
                         /\ Len(v.shape) = 2 /\ HoldsAllValues(v))

C2_Witness ==
    /\ call.op = "validate_column"
    /\ data.kind = "DataFrame"
    /\ call.column.type = "NoneType"
    /\ result.status = "ok"
    /\ result.value.shape = <<2, 2>>

\* The observations the call's statistics run on, as integers (the flattened
\* values of what validate_column resolved).
SampleOfCall ==
    LET v == validate_column(data, call.column)
    IN  [i \in 1..Len(v.arr.flat) |-> v.arr.flat[i].n]

SortInt(s) == SortSeq(s, LAMBDA a, b : a < b)

\* Twice the median of integers (an integer).
Median2(s) ==
    LET t == SortInt(s)
        n == Len(s)
    IN  IF n % 2 = 1 THEN 2 * t[(n + 1) \div 2] ELSE t[n \div 2] + t[n \div 2 + 1]

\* Four times the median absolute deviation of integers (an integer).
Mad4(s) == Median2([i \in 1..Len(s) |-> AbsInt(2 * s[i] - Median2(s))])

\* A call of remove_outliers_robust_z_score with a plain number as threshold.
RobustCall(side) ==
    /\ call.op = "remove_outliers_robust_z_score"
    /\ ~call.calibrated
    /\ call.outlier_type = side

\* C3 as claimed: the side = "both" mask equals, element by element, the
\* side = "upper" mask AND the side = "lower" mask for the same sample and
\* threshold, also where |robust z| equals the threshold.
C3_BothIsUpperAndLower ==
    (RobustCall("both") /\ result.status = "ok")
        => LET upper == remove_outliers_robust_z_score(data, call.column,
                                                       call.threshold, "upper")
               lower == remove_outliers_robust_z_score(data, call.column,
                                                       call.threshold, "lower")
           IN  result.value = MaskAnd(upper.value, lower.value)

AllFlagged(mask) == \A j \in 1..Len(mask.flat) : ~mask.flat[j]

\* C4 as claimed: with a zero MAD, every side gives a mask that flags every
\* observation, and no error.
C4_ZeroMadFlagsAll ==
    (\E side \in {"both", "upper", "lower"} : RobustCall(side))
        => (result.status \notin {"ok", "ValueError"}
            \/ Mad4(SampleOfCall) # 0
            \/ (result.status = "ok" /\ AllFlagged(result.value)))

\* C4 as amended: with a zero MAD no error is raised; side = "both" flags
\* every observation; side = "upper" flags the observations at or above the
\* median and retains those strictly below it; side = "lower" flags those at
\* or below the median and retains those strictly above it.
C4_ZeroMadBySide ==
    (\E side \in {"both", "upper", "lower"} : RobustCall(side))
        => (result.status \notin {"ok", "ValueError"}
            \/ Mad4(SampleOfCall) # 0
            \/ /\ result.status = "ok"
               /\ Len(result.value.flat) = Len(SampleOfCall)
               /\ \A j \in 1..Len(SampleOfCall) :
                     result.value.flat[j] =
                        \/ call.outlier_type = "upper"
                           /\ 2 * SampleOfCall[j] < Median2(SampleOfCall)
                        \/ call.outlier_type = "lower"
                           /\ 2 * SampleOfCall[j] > Median2(SampleOfCall))

\* A zero MAD, an observation below the median, and side = "upper" keeps it.
C4_Witness ==
    /\ RobustCall("upper")
    /\ result.status = "ok"
    /\ Mad4(SampleOfCall) = 0
    /\ \E j \in 1..Len(SampleOfCall) :
          2 * SampleOfCall[j] < Median2(SampleOfCall) /\ result.value.flat[j]
    /\ \E j \in 1..Len(SampleOfCall) : ~result.value.flat[j]

AllEqual(s) == \A i, j \in 1..Len(s) : s[i] = s[j]

CountFalse(flags) == Cardinality({j \in 1..Len(flags) : ~flags[j]})

\* The least integer >= n * p for a fraction p >= 0.
CeilOfProduct(p, n) == (n * p.n + p.d - 1) \div p.d

\* C6 as claimed: the threshold remove_outliers_percentile returns for
\* (percentile p, side s), passed to remove_outliers_robust_z_score on the
\* same sample and side, gives a mask that excludes about a fraction p of
\* the observations per requested side: at most ceil(p * n) + 1 of them, or
\* twice that for side = "both". Samples with a zero MAD are left out.
C6_CalibratedThresholdExcludesFraction ==
    (call.op = "remove_outliers_robust_z_score" /\ call.calibrated)
        => \/ Mad4(SampleOfCall) = 0
           \/ /\ result.status = "ok"
              /\ CountFalse(result.value.flat)
                    <= (IF call.outlier_type = "both" THEN 2 ELSE 1)
                          * (CeilOfProduct(call.percentile, Len(SampleOfCall)) + 1)

\* The population z-score rule on integers: with D(j) = n*x[j] - sum(x) and
\* V = sum of D(j)^2, (x[i] - mean)^2 / std^2 = n * D(i)^2 / V.
ZScoreRetains(s, i, t) ==
    LET n == Len(s)
        D(j) == n * s[j] - SumSeq(s)
        V == SumSeq([j \in 1..n |-> D(j) * D(j)])
    IN  V > 0 /\ t.n > 0 /\ n * D(i) * D(i) * t.d * t.d < t.n * t.n * V

Quartile4(s, num) ==
    LET t   == SortInt(s)
        lo  == (num * (Len(s) - 1)) \div 4
        rem == (num * (Len(s) - 1)) % 4
    IN  IF rem = 0 THEN 4 * t[lo + 1]
        ELSE 4 * t[lo + 1] + rem * (t[lo + 2] - t[lo + 1])

\* Q1 - k*IQR <= x <= Q3 + k*IQR, multiplied through by 4 * k.d.
TukeyRetains(s, i, k) ==
    LET Q1 == Quartile4(s, 1)
        Q3 == Quartile4(s, 3)
    IN  /\ 4 * k.d * s[i] >= k.d * Q1 - k.n * (Q3 - Q1)
        /\ 4 * k.d * s[i] <= k.d * Q3 + k.n * (Q3 - Q1)

\* C8: remove_outliers_tukey retains x exactly when Q1 - k*IQR <= x <=
\* Q3 + k*IQR, both ends inclusive, Q1 and Q3 the linearly interpolated
\* quartiles; for [10, 12, 11, 13, 12, 1000] and k = 1.5 only 1000 is flagged.
C8_TukeyRule ==
    (call.op = "remove_outliers_tukey" /\ result.status = "ok")
        => /\ Len(result.value.flat) = Len(SampleOfCall)
           /\ \A i \in 1..Len(SampleOfCall) :
                 result.value.flat[i] = TukeyRetains(SampleOfCall, i, call.k)
           /\ (data.flat = ScenarioTukey /\ call.k = Rat(3, 2))
                 => result.value.flat = <<TRUE, TRUE, TRUE, TRUE, TRUE, FALSE>>

C8_Witness ==
    /\ call.op = "remove_outliers_tukey"
    /\ data.flat = ScenarioTukey
    /\ call.k = Rat(3, 2)
    /\ result.status = "ok"
    /\ result.value.flat = <<TRUE, TRUE, TRUE, TRUE, TRUE, FALSE>>

InInterquartileRange(s, i) ==
    Quartile4(s, 1) <= 4 * s[i] /\ 4 * s[i] <= Quartile4(s, 3)

\* C9: for every sample the remove_outliers_tukey mask with k = 1.5 retains
\* every observation whose value lies in [Q1, Q3].
C9_TukeyKeepsInterquartileRange ==
    (call.op = "remove_outliers_tukey" /\ result.status = "ok" /\ call.k = Rat(3, 2))
        => \A i \in 1..Len(SampleOfCall) :
              InInterquartileRange(SampleOfCall, i) => result.value.flat[i]

\* k = 1.5, an observation inside [Q1, Q3] is kept and another is flagged.
C9_Witness ==
    /\ call.op = "remove_outliers_tukey"
    /\ result.status = "ok"
    /\ call.k = Rat(3, 2)
    /\ \E i \in 1..Len(SampleOfCall) :
          InInterquartileRange(SampleOfCall, i) /\ result.value.flat[i]
    /\ \E i \in 1..Len(SampleOfCall) : ~result.value.flat[i]

\* (x - median) / MAD <= t on integers: with m2 = 2*median and m4 = 4*MAD > 0
\* the robust z-score is 2 * (2*x - m2) / m4. With MAD = 0 the score is -inf
\* below the median, +inf above it and NaN at it.
RobustUpperRetains(s, i, t) ==
    IF Mad4(s) > 0 THEN 2 * (2 * s[i] - Median2(s)) * t.d <= t.n * Mad4(s)
    ELSE 2 * s[i] < Median2(s)

RobustLowerRetains(s, i, t) ==
    IF Mad4(s) > 0 THEN 2 * (2 * s[i] - Median2(s)) * t.d >= -t.n * Mad4(s)
    ELSE 2 * s[i] > Median2(s)

\* C10: side = "upper" retains x exactly when (x - median) / MAD <= threshold
\* and, for threshold >= 0 and MAD > 0, drops no observation at or below the
\* median; side = "lower" retains x exactly when (x - median) / MAD >=
\* -threshold and drops no observation at or above the median.
C10_OneSidedRule ==
    /\ (RobustCall("upper") /\ result.status = "ok")
          => \A i \in 1..Len(SampleOfCall) :
                /\ result.value.flat[i]
                      = RobustUpperRetains(SampleOfCall, i, call.threshold.flat[1])
                /\ (call.threshold.flat[1].n >= 0 /\ Mad4(SampleOfCall) > 0
                    /\ 2 * SampleOfCall[i] <= Median2(SampleOfCall))
                      => result.value.flat[i]
    /\ (RobustCall("lower") /\ result.status = "ok")
          => \A i \in 1..Len(SampleOfCall) :
                /\ result.value.flat[i]
                      = RobustLowerRetains(SampleOfCall, i, call.threshold.flat[1])
                /\ (call.threshold.flat[1].n >= 0 /\ Mad4(SampleOfCall) > 0
                    /\ 2 * SampleOfCall[i] >= Median2(SampleOfCall))
                      => result.value.flat[i]

\* side = "upper", MAD > 0: an observation above the median is dropped while
\* one below the median is kept.
C10_Witness ==
    /\ RobustCall("upper")
    /\ result.status = "ok"
    /\ Mad4(SampleOfCall) > 0
    /\ call.threshold.flat[1].n >= 0
    /\ \E i \in 1..Len(SampleOfCall) :
          2 * SampleOfCall[i] > Median2(SampleOfCall) /\ ~result.value.flat[i]
    /\ \E i \in 1..Len(SampleOfCall) :
          2 * SampleOfCall[i] < Median2(SampleOfCall) /\ result.value.flat[i]

ValidSides == {"upper", "lower", "both"}

\* C11: for a side other than "upper", "lower" or "both", both
\* remove_outliers_robust_z_score and remove_outliers_percentile raise
\* ValueError and return no mask or threshold, for every sample the selector
\* resolves, a sample with a zero MAD included.
C11_InvalidSideFails ==
    (/\ call.op \in {"remove_outliers_robust_z_score", "remove_outliers_percentile"}
     /\ call.outlier_type \notin ValidSides
     /\ validate_column(data, call.column).status = "ok")
        => /\ result.status = "ValueError"
           /\ result.value = NoneValue

\* side = "sideways" on a sample whose MAD is zero, for each of the two.
C11_Witness ==
    /\ call.op = "remove_outliers_percentile"
    /\ call.outlier_type = "sideways"
    /\ validate_column(data, call.column).status = "ok"
    /\ Mad4(SampleOfCall) = 0
    /\ result.status = "ValueError"
    /\ result.value = NoneValue

\* q.d times the linearly interpolated quantile of integers at the fraction
\* q = q.n / q.d of the way through the sorted values (an integer).
QuantileNum(s, q) ==
    LET t   == SortInt(s)
        lo  == ((Len(s) - 1) * q.n) \div q.d
        rem == ((Len(s) - 1) * q.n) % q.d
    IN  IF rem = 0 THEN q.d * t[lo + 1]
        ELSE q.d * t[lo + 1] + rem * (t[lo + 2] - t[lo + 1])

\* r is the quantile at fraction q of the robust z-scores of s (MAD > 0):
\* (quantile(s) - median) / MAD = 2 * (2*QuantileNum - q.d*m2) / (q.d * m4).
IsRobustQuantile(r, s, q) ==
    /\ r.d > 0
    /\ r.n * q.d * Mad4(s) = 2 * (2 * QuantileNum(s, q) - q.d * Median2(s)) * r.d

\* A call of remove_outliers_percentile, side "both", 0 < percentile < 0.5,
\* on a sample the selector resolves.
PercentileBothCall ==
    /\ call.op = "remove_outliers_percentile"
    /\ call.outlier_type = "both"
    /\ call.percentile.n > 0
    /\ 2 * call.percentile.n < call.percentile.d
    /\ validate_column(data, call.column).status = "ok"

\* C12 as claimed: side = "both" with 0 < p < 0.5 returns exactly two values
\* [lo, hi] with lo <= hi, lo the value returned for side = "lower" and hi
\* the value returned for side = "upper" on the same sample and p.
C12_BothIsOrderedPair ==
    PercentileBothCall
        => /\ result.status = "ok"
           /\ result.value.shape = <<2>>
           /\ RLe(result.value.flat[1], result.value.flat[2])
           /\ result.value.flat[1]
                 = remove_outliers_percentile(data, call.column, call.percentile,
                                              "lower").value.flat[1]
           /\ result.value.flat[2]
                 = remove_outliers_percentile(data, call.column, call.percentile,
                                              "upper").value.flat[1]

\* C12 as amended: side = "both" with 0 < p < 0.5 returns exactly two values
\* [lo, hi], lo the value returned for side = "lower" (the 100p-th percentile
\* of the robust z-scores) and hi the value returned for side = "upper" (the
\* (100 - 100p)-th); lo <= hi when the MAD is not zero; with a zero MAD both
\* values are NaN and lo <= hi is false.
C12_BothIsPairOrderedOffZeroMad ==
    PercentileBothCall
        => LET lo == result.value.flat[1]
               hi == result.value.flat[2]
               p  == call.percentile
           IN  /\ result.status = "ok"
               /\ result.value.kind = "number"
               /\ result.value.shape = <<2>>
               /\ lo = remove_outliers_percentile(data, call.column, p,
                                                  "lower").value.flat[1]
               /\ hi = remove_outliers_percentile(data, call.column, p,
                                                  "upper").value.flat[1]
               /\ IF Mad4(SampleOfCall) > 0
                  THEN /\ IsRobustQuantile(lo, SampleOfCall, p)
                       /\ IsRobustQuantile(hi, SampleOfCall, Rat(p.d - p.n, p.d))
                       /\ RLe(lo, hi)
                  ELSE IsNaN(lo) /\ IsNaN(hi) /\ ~RLe(lo, hi)

\* A non-zero MAD and lo strictly below hi.
C12_Witness ==
    /\ PercentileBothCall
    /\ result.status = "ok"
    /\ Mad4(SampleOfCall) > 0
    /\ RLt(result.value.flat[1], result.value.flat[2])

\* A call of remove_outliers_truncated_mean on a sample the selector resolves.
TruncatedMeanCall ==
    /\ call.op = "remove_outliers_truncated_mean"
    /\ validate_column(data, call.column).status = "ok"

AllRetained(mask) == \A j \in 1..Len(mask.flat) : mask.flat[j]

MinInt(s) == CHOOSE x \in {s[i] : i \in 1..Len(s)} : \A i \in 1..Len(s) : x <= s[i]

MaxInt(s) == CHOOSE x \in {s[i] : i \in 1..Len(s)} : \A i \in 1..Len(s) : x >= s[i]

\* C13: remove_outliers_truncated_mean with percentage = 0 retains every
\* observation of every sample; lower is the minimum and upper the maximum.
C13_ZeroPercentageRetainsAll ==
    (TruncatedMeanCall /\ call.percentage = Int2Rat(0))
        => /\ result.status = "ok"
           /\ result.value.kind = "bool"
           /\ Len(result.value.flat) = Len(SampleOfCall)
           /\ AllRetained(result.value)
           /\ QuantileNum(SampleOfCall, Rat(0, 100)) = 100 * MinInt(SampleOfCall)
           /\ QuantileNum(SampleOfCall, Rat(100, 100)) = 100 * MaxInt(SampleOfCall)

\* percentage = 0 on a sample whose minimum and maximum differ.
C13_Witness ==
    /\ TruncatedMeanCall
    /\ call.percentage = Int2Rat(0)
    /\ MinInt(SampleOfCall) < MaxInt(SampleOfCall)
    /\ result.status = "ok"
    /\ AllRetained(result.value)

\* 100 * lower and 100 * upper of the truncated-mean call, on integers.
Lower100 == QuantileNum(SampleOfCall, Rat(call.percentage.n, 100))

Upper100 == QuantileNum(SampleOfCall, Rat(100 - call.percentage.n, 100))

\* C14: remove_outliers_truncated_mean does not validate percentage: for
\* 50 < percentage <= 100 it raises no error, lower (the percentage-th
\* percentile) is >= upper (the (100 - percentage)-th), the mask retains x
\* exactly when lower <= x <= upper, and it is all false when lower > upper.
C14_InvertedBoundsEmptyMask ==
    (/\ TruncatedMeanCall
     /\ call.percentage.n > 50
     /\ call.percentage.n <= 100)
        => /\ result.status = "ok"
           /\ Lower100 >= Upper100
           /\ Len(result.value.flat) = Len(SampleOfCall)
           /\ \A i \in 1..Len(SampleOfCall) :
                 result.value.flat[i]
                    = (Lower100 <= 100 * SampleOfCall[i]
                       /\ 100 * SampleOfCall[i] <= Upper100)
           /\ Lower100 > Upper100 => AllFlagged(result.value)

\* percentage = 60, lower > upper, and the mask is all false.
C14_Witness ==
    /\ TruncatedMeanCall
    /\ call.percentage = Int2Rat(60)
    /\ Lower100 > Upper100
    /\ result.status = "ok"
    /\ AllFlagged(result.value)

\* A call of winsorize_data on a sample the selector resolves.
WinsorizeCall ==
    /\ call.op = "winsorize_data"
    /\ validate_column(data, call.column).status = "ok"

SameAsSample(v, i) == v.flat[i] = Int2Rat(SampleOfCall[i])

\* C15: winsorize_data with limits = (0, 0) returns a sample equal to the
\* input sample, element by element and in the same order.
C15_ZeroLimitsIdentity ==
    (WinsorizeCall /\ call.limits = <<Rat(0, 4), Rat(0, 4)>>)
        => /\ result.status = "ok"
           /\ result.value.kind = "number"
           /\ result.value.shape = validate_column(data, call.column).arr.shape
           /\ Len(result.value.flat) = Len(SampleOfCall)
           /\ \A i \in 1..Len(SampleOfCall) : SameAsSample(result.value, i)

\* limits = (0, 0) on a sample that is not in ascending order.
C15_Witness ==
    /\ WinsorizeCall
    /\ call.limits = <<Rat(0, 4), Rat(0, 4)>>
    /\ \E i \in 1..(Len(SampleOfCall) - 1) : SampleOfCall[i] > SampleOfCall[i + 1]
    /\ result.status = "ok"
    /\ \A i \in 1..Len(SampleOfCall) : SameAsSample(result.value, i)

\* The number of observations a limit replaces: int(limit * n).
CutCount(limit, n) == (limit.n * n) \div limit.d

\* The cutoff values of the input sample: the smallest value not replaced
\* from below and the largest value not replaced from above.
LowerCutoff == SortInt(SampleOfCall)[CutCount(call.limits[1], Len(SampleOfCall)) + 1]

UpperCutoff ==
    SortInt(SampleOfCall)[Len(SampleOfCall) - CutCount(call.limits[2], Len(SampleOfCall))]

\* Some observation is left in place: the two counts do not use up the sample.
CutoffsApart ==
    CutCount(call.limits[1], Len(SampleOfCall))
        + CutCount(call.limits[2], Len(SampleOfCall)) < Len(SampleOfCall)

WithinCutoffs(v) ==
    \A i \in 1..Len(v.flat) :
        RLe(Int2Rat(LowerCutoff), v.flat[i]) /\ RLe(v.flat[i], Int2Rat(UpperCutoff))

BetweenCutoffsUnchanged(v) ==
    \A i \in 1..Len(SampleOfCall) :
        (LowerCutoff < SampleOfCall[i] /\ SampleOfCall[i] < UpperCutoff)
            => SameAsSample(v, i)

\* C16 as claimed: for every sample and limits the output of winsorize_data
\* has the input's length, every output value lies within the lower and upper
\* cutoff values the limits determine, and every input value strictly between
\* the cutoffs is unchanged at its position.
C16_OutputWithinCutoffs ==
    WinsorizeCall
        => /\ result.status = "ok"
           /\ Len(result.value.flat) = Len(SampleOfCall)
           /\ WithinCutoffs(result.value)
           /\ BetweenCutoffsUnchanged(result.value)

\* C16 as amended: the output has the input's length; when int(lo*n) +
\* int(hi*n) < n every output value lies within the cutoffs, a value below
\* the lower cutoff becomes the lower cutoff, one above the upper cutoff
\* becomes the upper cutoff, and every other value is unchanged at its
\* position; when the two counts add up to n (limits (0.5, 0.5), n even)
\* every output value equals the lower cutoff, which can exceed the upper one.
C16_OutputWithinCutoffsWhenApart ==
    WinsorizeCall
        => /\ result.status = "ok"
           /\ result.value.shape = validate_column(data, call.column).arr.shape
           /\ Len(result.value.flat) = Len(SampleOfCall)
           /\ IF CutoffsApart
              THEN /\ WithinCutoffs(result.value)
                   /\ BetweenCutoffsUnchanged(result.value)
                   /\ \A i \in 1..Len(SampleOfCall) :
                         result.value.flat[i] =
                            Int2Rat(IF SampleOfCall[i] < LowerCutoff THEN LowerCutoff
                                    ELSE IF SampleOfCall[i] > UpperCutoff THEN UpperCutoff
                                    ELSE SampleOfCall[i])
              ELSE \A i \in 1..Len(SampleOfCall) :
                      result.value.flat[i] = Int2Rat(LowerCutoff)

\* Cutoffs apart, one value raised to the lower cutoff, one lowered to the
\* upper cutoff and one strictly between them left as it was.
C16_Witness ==
    /\ WinsorizeCall
    /\ result.status = "ok"
    /\ CutoffsApart
    /\ \E i, j, k \in 1..Len(SampleOfCall) :
          /\ SampleOfCall[i] < LowerCutoff
          /\ result.value.flat[i] = Int2Rat(LowerCutoff)
          /\ SampleOfCall[j] > UpperCutoff
          /\ result.value.flat[j] = Int2Rat(UpperCutoff)
          /\ LowerCutoff < SampleOfCall[k]
          /\ SampleOfCall[k] < UpperCutoff
          /\ SameAsSample(result.value, k)

\* A call of a mask-returning operation on a sample the selector resolves,
\* with a plain number as threshold and one of the three sides.
MaskCall ==
    /\ call.op \in {"remove_outliers_z_score", "remove_outliers_tukey",
                    "remove_outliers_robust_z_score", "remove_outliers_truncated_mean"}
    /\ validate_column(data, call.column).status = "ok"
    /\ call.op \in {"remove_outliers_z_score", "remove_outliers_robust_z_score"}
          => Len(call.threshold.shape) = 0
    /\ call.op = "remove_outliers_robust_z_score" => call.outlier_type \in ValidSides

\* C17: every mask-returning operation (Z-score, Tukey, robust Z-score for
\* each side, truncated mean) returns a boolean mask with one element per
\* observation, len(mask) = len(sample), for every sample and parameter
\* value, a zero standard deviation or a zero MAD included.
C17_MaskHasSampleLength ==
    MaskCall
        => /\ result.status = "ok"
           /\ result.value.kind = "bool"
           /\ result.value.shape = validate_column(data, call.column).arr.shape
           /\ Len(result.value.flat) = Len(SampleOfCall)
           /\ \A j \in 1..Len(SampleOfCall) : result.value.flat[j] \in BOOLEAN

\* A constant sample of three values (zero standard deviation, zero MAD).
C17_Witness ==
    /\ MaskCall
    /\ call.op = "remove_outliers_z_score"
    /\ Len(SampleOfCall) = 3
    /\ AllEqual(SampleOfCall)
    /\ result.status = "ok"
    /\ Len(result.value.flat) = 3

CsvOf(name) == IF name = "boston_housing" THEN BostonCsv ELSE CaliforniaCsv

\* C19: load_data returns a table for each known dataset name and for any
\* argument that is the path of an existing CSV file (the table read from
\* that file), and raises ValueError, returning nothing, for every other
\* argument.
C19_LoadDataTableOrValueError ==
    call.op = "load_data"
        => IF is_file(files, call.dataset)
           THEN /\ result.status = "ok"
                /\ result.value = read_csv(files, call.dataset)
           ELSE IF call.dataset \in {"boston_housing", "california_housing"}
           THEN /\ result.status = "ok"
                /\ result.value.kind = "DataFrame"
                /\ result.value = read_csv(files, CsvOf(call.dataset))
           ELSE /\ result.status = "ValueError"
                /\ result.value = NoneValue

\* ValueError for a string that is neither, after a known name and a path
\* were loaded.
C19_Witness ==
    /\ call.op = "load_data"
    /\ call.dataset = "non_existent_dataset"
    /\ result.status = "ValueError"
    /\ memo["california_housing"] # NoEntry
    /\ \E p \in UserCsvs : memo[p] # NoEntry

\* C20: load_boston_housing_data downloads only when the local CSV is not
\* there: a request to the remote source is made only in a step that starts
\* without the file; after a call the file exists and the call returned the
\* table read from it; a file that exists stays as it is, so no later call
\* contacts the remote source again.
C20_DownloadsOnlyWhenAbsent ==
    [][/\ remote' # remote => (~is_file(files, BostonCsv) /\ remote' = remote + 1)
       /\ is_file(files, BostonCsv) => files'[BostonCsv] = files[BostonCsv]
       /\ call'.op = "load_boston_housing_data"
             => /\ result'.status = "ok"
                /\ is_file(files', BostonCsv)
                /\ result'.value = read_csv(files', BostonCsv)
                /\ (remote' # remote) = ~is_file(files, BostonCsv)]_vars

\* The file was downloaded once, by load_data("boston_housing"), and a later
\* direct call read it without another request.
C20_Witness ==
    /\ call.op = "load_boston_housing_data"
    /\ remote = 1
    /\ files[BostonCsv] = BostonCsvFromRemote
    /\ memo["boston_housing"] # NoEntry
    /\ result.value = read_csv(files, BostonCsv)

\* The store a memoized loader call consults, what the call was given and
\* the store after it.
StoreBefore == IF call'.op = "load_data" THEN memo ELSE resources

StoreAfter == IF call'.op = "load_data" THEN memo' ELSE resources'

ArgOf(c) == IF c.op = "load_data" THEN c.dataset ELSE c.model_path

\* C21: load_model and load_data are memoized per argument: a call whose
\* argument has a stored result returns that result without running the body
\* (no file is read or written, nothing is requested, the stores stay as they
\* are); a call whose argument has none runs the body, stores the result under
\* that argument alone when the body returned, and stores nothing when the
\* body raised, so that the next call with that argument runs the body again.
C21_MemoizedPerArgument ==
    [][call'.op \in {"load_data", "load_model"} =>
        LET a == ArgOf(call')
        IN  /\ StoreBefore[a] # NoEntry =>
                /\ ~call'.body_ran
                /\ result' = Return(StoreBefore[a], {})
                /\ UNCHANGED <<files, remote, memo, resources>>
            /\ StoreBefore[a] = NoEntry =>
                /\ call'.body_ran
                /\ result'.status = "ok" =>
                       StoreAfter = [StoreBefore EXCEPT ![a] = result'.value]
                /\ result'.status # "ok" => StoreAfter = StoreBefore
            /\ call'.op = "load_data" => resources' = resources
            /\ call'.op = "load_model" => memo' = memo]_vars

\* Both stores hold a result, a stored result has been returned without the
\* body running, and another argument of the same loader has no entry.
C21_Witness ==
    /\ call.op = "load_model"
    /\ ~call.body_ran
    /\ result = Return(resources[ModelPkl], {})
    /\ resources[ModelPkl] # NoEntry
    /\ \E a \in ModelArgs : resources[a] = NoEntry
    /\ \E a, b \in DatasetArgs : memo[a] # NoEntry /\ memo[b] # NoEntry /\ memo[a] # memo[b]
    /\ memo["non_existent_dataset"] = NoEntry

RerunCall == call.op = "rerun_on_attribute_error"

\* C22: rerun_on_attribute_error invokes func once or twice; it returns the
\* first invocation's result when that returned; it invokes func a second time
\* exactly when the first invocation raised AttributeError, and its outcome is
\* then the second invocation's (a return or whatever it raised); any other
\* exception of the first invocation is the call's outcome, with one
\* invocation.
C22_AtMostTwoInvocations ==
    RerunCall =>
        /\ call.invocations \in {1, 2}
        /\ call.func[1].status = "ok" => result = call.func[1] /\ call.invocations = 1
        /\ call.invocations = 2 <=> call.func[1].status = "AttributeError"
        /\ call.invocations = 2 => result = call.func[2]
        /\ call.func[1].status \notin {"ok", "AttributeError"} =>
               result = call.func[1] /\ call.invocations = 1

\* The first invocation raised AttributeError and the second one raised
\* something else, which the caller sees.
C22_Witness ==
    /\ RerunCall
    /\ call.func[1].status = "AttributeError"
    /\ call.func[2].status = "ValueError"
    /\ call.invocations = 2
    /\ result.status = "ValueError"

SplitCall == call.op = "split_data_with_id_hash"

\* The identifier of the row at position p of the table a split was given.
IdentifierAt(p) ==
    IF call.id_column = "index" /\ ~InColumns(call.data, "index")
    THEN call.data.index[p]
    ELSE ColumnValues(call.data, call.id_column)[p]

\* crc32 of the identifier is below ratio * 2**32, both sides multiplied by
\* the ratio's denominator and divided by 2**16.
HashBelowRatio(identifier, ratio) ==
    Crc32OfId[identifier][1] * ratio.d < ratio.n * 65536

HasRow(frame, label, row) ==
    \E k \in 1..Len(frame.rows) : frame.index[k] = label /\ frame.rows[k] = row

TrainTestCall == call.op = "load_boston_housing_train_test"

\* C25: load_boston_housing_train_test raises ValueError exactly for a ratio
\* below 0 or above 1, and then no file has been written and nothing has been
\* downloaded; the ratios 0 and 1 are accepted.
C25_RatioCheckedFirst ==
    TrainTestCall =>
        /\ result.status = "ValueError" <=> OutOfUnitRange(call.test_ratio)
        /\ result.status = "ValueError" => files = call.files /\ remote = call.remote
        /\ call.test_ratio \in {Rat(0, 1), Rat(1, 1)} => result.status = "ok"

\* A ratio above 1 on a machine without the Boston CSV: ValueError, and the
\* CSV is still not there.
C25_Witness ==
    /\ TrainTestCall
    /\ call.test_ratio = Rat(5, 4)
    /\ result.status = "ValueError"
    /\ ~is_file(files, BostonCsv)
    /\ remote = 0

\* The pair of tables the split of the full table at a ratio gives, as read
\* back from the two files.
SplitAt(test_ratio) ==
    LET split == split_data_with_id_hash(BostonFrame, test_ratio, "index").result.value
    IN  TrainTest([kind |-> "DataFrame", parsed_from |-> to_csv(split.train)],
                  [kind |-> "DataFrame", parsed_from |-> to_csv(split.test)])

\* C26: whatever calls came before, the pair load_boston_housing_train_test
\* returns for a valid ratio is the split of the full table at that ratio.
C26_PairIsSplitAtRatio ==
    (TrainTestCall /\ result.status = "ok") => result.value = SplitAt(call.test_ratio)

\* C27: a split that fails with ValueError leaves the caller's table as it
\* was given.
C27_FailureLeavesTable ==
    (SplitCall /\ result.status = "ValueError") => data = call.data

\* C28: in a run of the app script no read of session state hits a missing
\* key, every key read having been written earlier in the same run.
C28_ReadsAfterWrites ==
    call.op = "app.py" =>
        /\ result.status # "KeyError"
        /\ \A i \in 1..Len(call.reads) : call.reads[i].written_before

\* C29: on a dataset of n rows the slider's minimum, maximum and default are
\* row positions 0..n-1, the default lies between the minimum and the
\* maximum, and so neither the slider nor the row lookup fails.
C29_SliderValuesAreRows ==
    call.op = "individual_tree_shap_plots" =>
        /\ {call.min_value, call.max_value, call.value} \subseteq 0..(call.n - 1)
        /\ call.min_value <= call.value /\ call.value <= call.max_value
        /\ result.status \notin {"IndexError", "StreamlitAPIException"}

FigureCall == call'.op \in {"figure_wrapper", "generate_heat_map"}

\* What a call shows is what the file held before the call.
ShowsSaved ==
    IF call'.op = "figure_wrapper"
    THEN call'.shown = Shown(pickle_load(files[call'.path]))
    ELSE call'.shown.by = "st.image" /\ call'.shown.fig = files[call'.path]

\* C30: the generating code runs exactly when the saved file is absent and
\* then writes the file; a call that finds the file leaves the files alone
\* and shows the saved artifact whatever table it was given; a None result is
\* saved too, and a saved None makes the call report that no figure was
\* generated.
C30_GeneratorRunsThenSaves ==
    [][FigureCall =>
        /\ call'.generator_ran <=> ~is_file(files, call'.path)
        /\ call'.generator_ran => is_file(files', call'.path)
        /\ ~call'.generator_ran => files' = files /\ ShowsSaved
        /\ call'.outcome = "None" => files'[call'.path] = pickle_dump(NoneValue)
        /\ (is_file(files, call'.path) /\ files[call'.path] = pickle_dump(NoneValue)) =>
               call'.shown.text = "Error: Figure not generated."]_vars

\* C30, as the code has it: the file is written when the generating code
\* returned; when it raised, nothing is written and the exception leaves the
\* call, so that the next call runs the generating code again.
C30_GeneratorRunsThenSavesIfReturned ==
    [][FigureCall =>
        /\ call'.generator_ran <=> ~is_file(files, call'.path)
        /\ (call'.generator_ran /\ result'.status = "ok") =>
               /\ is_file(files', call'.path)
               /\ \A p \in DOMAIN files : p # call'.path => files'[p] = files[p]
        /\ (call'.generator_ran /\ result'.status # "ok") =>
               /\ call'.outcome = "raises"
               /\ files' = files
               /\ call'.shown = NothingShown
        /\ ~call'.generator_ran => files' = files /\ ShowsSaved /\ result'.status = "ok"
        /\ call'.outcome = "None" => files'[call'.path] = pickle_dump(NoneValue)
        /\ (is_file(files, call'.path) /\ files[call'.path] = pickle_dump(NoneValue)) =>
               call'.shown.text = "Error: Figure not generated."]_vars

\* A call that was given one table shows the figure saved for another, and
\* a saved None is reported as an error.
C30_Witness ==
    /\ call.op = "figure_wrapper"
    /\ ~call.generator_ran
    /\ call.shown.by = "st.pyplot"
    /\ call.shown.fig.of # call.dataset
    /\ \E n \in FigNames : files[FigPath("boston_housing", n)] = pickle_dump(NoneValue)

====
